---- MODULE Spec2Model ----
(***************************************************************************)
(* A model of the structural core of obsidian-long-view: the parser of     *)
(* headings, callouts and inline flags (documentParser.ts), the            *)
(* paginators (simplePagination.ts, documentParser.ts, the adaptive        *)
(* paginator) and the minimap tokenizer (miniMapRenderer.ts).              *)
(*                                                                         *)
(* A document is a sequence of one-character strings.  Offsets are the     *)
(* 0-based offsets of the TypeScript source; CharAt(t, i) is t[i].         *)
(***************************************************************************)
EXTENDS Integers, Sequences, FiniteSets, TLC

VARIABLES
    algo,             \* which operation this behaviour runs
    text,             \* the document handed to the operation
    wordTotal,        \* the number of words of a document given by its word count alone
    wordsPerPage,     \* parseDocumentIntoPages: its second argument
    estimatedWords,   \* AdaptivePaginator: estimateStartingWordCount(pageDimensions)
    maxIterations,    \* AdaptivePaginator: options.maxIterations
    oracleCap,        \* the measurement oracle of this behaviour (see OracleHeights)
    renderer,         \* MarkdownRenderer.render in this behaviour: "ok", "throws" or "any"
    pageHeight,       \* FastPaginator: options.pageHeight
    pc,               \* position inside the running operation
    wordMatches,      \* Array.from(text.matchAll(/\S+/g))
    currentWordIndex, \* paginateDocument: currentWordIndex; parseDocumentIntoPages: i
    pageNumber,       \* the pageNumber counter of the running paginator
    pages,            \* the page list built so far (the return value once pc = "done")
    currentOffset,    \* AdaptivePaginator.parseDocument: currentOffset
    startWordIndex,   \* createPage: startWordIndex
    minWords,         \* findOptimalWordCount: minWords
    maxWords,         \* findOptimalWordCount: maxWords
    bestFit,          \* findOptimalWordCount: bestFit (NoFit for null)
    iterations,       \* findOptimalWordCount: iterations
    measureLog,       \* the measurements made for the page being built, in order
    cursor,           \* tokenizeContent: cursor
    itemIndex,        \* tokenizeContent: the number of special items handled so far
    consumed,         \* tokenizeContent: the spans [from, to) handed out so far, in order
    fragments,        \* tokenizeContent: fragments
    calloutStack,     \* computeHeadingCalloutStacks: calloutStack
    stackMap,         \* computeHeadingCalloutStacks: stackMap
    stackPos,         \* the number of headings the running loop over the headings has handled
    counters,         \* computeHeadingNumbers: counters
    headingNumberMap, \* MiniMapRenderer: headingNumberMap
    fitWordCount,     \* fitContent: wordCount
    attempts,         \* fitContent: attempts
    renderFailures,   \* the number of render calls that threw so far
    body,             \* the scratch containers attached to document.body
    measureContainer, \* FastPaginator.measureContainer, ContentMeasurer.measurementContainer (0: none)
    isSetup,          \* ContentMeasurer.isSetup
    events,           \* Component: the number of callbacks registered and not yet run
    children,         \* the scratch containers that hold a per-measurement element
    unloaded,         \* unload or cleanup was called, and parseDocument was not called since
    created,          \* the number of scratch containers created so far
    measureEl,        \* the container of the element of the running measurement (0: none)
    flagColorMap,     \* flagColors.ts: flagColorMap
    flagType,         \* the argument of the last getFlagColor call
    flagColor,        \* what the last getFlagColor call returned
    result,           \* stripFlagsAndComments: result
    currentMode,      \* LongView: currentMode
    activeFile,       \* workspace.getActiveFile()
    vault,            \* the content of the files: what app.vault.read resolves to
    currentFile,      \* LongView: currentFile
    documentLength,   \* LongView: documentLength
    minimapSections,  \* LongView: minimapSections
    minimapRenderer,  \* LongView: minimapRenderer, with the pages and headingCalloutStacks of the renderer
    summaryRenderer,  \* LongView: summaryRenderer
    pagedCalloutStacks, \* renderPaged: headingCalloutStacks
    calls             \* the invocations that wait at an await: where, and with what file

inputVars == <<algo, text, wordTotal, wordsPerPage, estimatedWords, maxIterations, oracleCap,
               renderer, pageHeight>>
adaptiveVars == <<currentOffset, startWordIndex, minWords, maxWords, bestFit,
                  iterations, measureLog>>

renderVars == <<cursor, itemIndex, consumed, fragments>>
stackVars == <<calloutStack, stackMap, stackPos, counters, headingNumberMap>>
fastVars == <<fitWordCount, attempts>>
measurerVars == <<renderFailures>>
colorVars == <<flagColorMap, flagType, flagColor>>
scratchVars == <<body, measureContainer, isSetup, events, children, unloaded, created,
                 measureEl>>
stripVars == <<result>>
viewVars == <<currentMode, activeFile, vault, currentFile, documentLength, minimapSections, minimapRenderer, summaryRenderer, pagedCalloutStacks, calls>>

vars == <<inputVars, pc, wordMatches, currentWordIndex, pageNumber, pages, adaptiveVars,
          renderVars, stackVars, fastVars, measurerVars, scratchVars, colorVars, stripVars, viewVars>>

(***************************************************************************)
(* Characters and strings                                                  *)
(***************************************************************************)

\* The characters JavaScript's \s and String.prototype.trim treat as
\* whitespace, as far as the documents of this model use them.
WhiteSpace == {" ", "\n", "\t", "\r"}

\* The characters the regular-expression dot does not match, and at which the
\* multiline anchors ^ and $ match.
LineTerminators == {"\n", "\r"}

IsWS(c) == c \in WhiteSpace

Min(a, b) == IF a <= b THEN a ELSE b
Max(a, b) == IF a >= b THEN a ELSE b

\* t[i] for a 0-based index i.
CharAt(t, i) == t[i + 1]

\* String.prototype.substring(a, b) for 0 <= a, b: both ends are clamped to the
\* length and swapped when a > b.
Substring(t, a, b) ==
    LET ca == Min(Max(a, 0), Len(t))
        cb == Min(Max(b, 0), Len(t))
    IN  SubSeq(t, Min(ca, cb) + 1, Max(ca, cb))

\* u repeated n times.
Rep(u, n) == <<>> \o [i \in 1..(n * Len(u)) |-> u[((i - 1) % Len(u)) + 1]]

\* text.trim().length === 0
IsBlank(t) == \A i \in 1..Len(t) : IsWS(t[i])

(***************************************************************************)
(* text.matchAll(/\S+/g): the maximal runs of non-whitespace, in order.    *)
(* Each match is [index, len]: match.index and match[0].length.            *)
(***************************************************************************)

\* A run of \S starts at i: t[i] is not whitespace and i is 0 or follows whitespace.
IsWordStart(t, i) == ~IsWS(CharAt(t, i)) /\ (i = 0 \/ IsWS(CharAt(t, i - 1)))

\* A greedy run of \S ends just before e.
IsWordEnd(t, e) == ~IsWS(CharAt(t, e - 1)) /\ (e = Len(t) \/ IsWS(CharAt(t, e)))

RECURSIVE WordStartsIn(_, _, _)
WordStartsIn(t, lo, hi) ==
    IF lo > hi THEN <<>>
    ELSE IF lo = hi THEN (IF IsWordStart(t, lo) THEN <<lo>> ELSE <<>>)
    ELSE LET mid == (lo + hi) \div 2
         IN  WordStartsIn(t, lo, mid) \o WordStartsIn(t, mid + 1, hi)

RECURSIVE WordEndsIn(_, _, _)
WordEndsIn(t, lo, hi) ==
    IF lo > hi THEN <<>>
    ELSE IF lo = hi THEN (IF IsWordEnd(t, lo) THEN <<lo>> ELSE <<>>)
    ELSE LET mid == (lo + hi) \div 2
         IN  WordEndsIn(t, lo, mid) \o WordEndsIn(t, mid + 1, hi)

MatchAllWords(t) ==
    LET starts == WordStartsIn(t, 0, Len(t) - 1)
        ends   == WordEndsIn(t, 1, Len(t))
    IN  [k \in 1..Len(starts) |-> [index |-> starts[k], len |-> ends[k] - starts[k]]]

(***************************************************************************)
(* Scanning helpers                                                        *)
(***************************************************************************)

\* The least offset i in lo..hi whose character is in the class C, or -1: a
\* left-to-right scan for a character class.
RECURSIVE FirstOf(_, _, _, _)
FirstOf(t, C, lo, hi) ==
    IF lo > hi THEN -1
    ELSE IF lo = hi THEN (IF CharAt(t, lo) \in C THEN lo ELSE -1)
    ELSE LET l == FirstOf(t, C, lo, (lo + hi) \div 2)
         IN  IF l # -1 THEN l ELSE FirstOf(t, C, (lo + hi) \div 2 + 1, hi)

\* The least offset i in lo..hi whose character is not in C, or -1.
RECURSIVE FirstNotOf(_, _, _, _)
FirstNotOf(t, C, lo, hi) ==
    IF lo > hi THEN -1
    ELSE IF lo = hi THEN (IF CharAt(t, lo) \notin C THEN lo ELSE -1)
    ELSE LET l == FirstNotOf(t, C, lo, (lo + hi) \div 2)
         IN  IF l # -1 THEN l ELSE FirstNotOf(t, C, (lo + hi) \div 2 + 1, hi)

\* The greatest offset i in lo..hi whose character is not in C, or -1.
RECURSIVE LastNotOf(_, _, _, _)
LastNotOf(t, C, lo, hi) ==
    IF lo > hi THEN -1
    ELSE IF lo = hi THEN (IF CharAt(t, lo) \notin C THEN lo ELSE -1)
    ELSE LET r == LastNotOf(t, C, (lo + hi) \div 2 + 1, hi)
         IN  IF r # -1 THEN r ELSE LastNotOf(t, C, lo, (lo + hi) \div 2)

\* e, or the length of t when the scan found nothing (e = -1).
OrEnd(t, e) == IF e = -1 THEN Len(t) ELSE e

\* The dot of a regular expression: any character but a line terminator.
IsDot(c) == c \notin LineTerminators

\* The end (exclusive) of the maximal run of dot characters starting at a:
\* where a greedy .* or .+ starting at a stops.
DotRunEnd(t, a) == OrEnd(t, FirstOf(t, LineTerminators, a, Len(t) - 1))

\* The end (exclusive) of the maximal run of whitespace starting at a: where a
\* greedy \s* starting at a stops.
WsRunEnd(t, a) == OrEnd(t, FirstNotOf(t, WhiteSpace, a, Len(t) - 1))

\* String.prototype.trim
Trim(s) ==
    LET first == FirstNotOf(s, WhiteSpace, 0, Len(s) - 1)
    IN  IF first = -1 THEN <<>>
        ELSE SubSeq(s, first + 1, LastNotOf(s, WhiteSpace, 0, Len(s) - 1) + 1)

(***************************************************************************)
(* simplePagination.ts: the image look-ahead /!\[.*?\]\(.*?\)/g            *)
(***************************************************************************)

\* Where the first lazy .*? of the image pattern stops, searching from offset
\* from: at the leftmost "](" after which the second .*? finds a ")" before
\* lineEnd; -1 when there is none.
RECURSIVE ImageMid(_, _, _)
ImageMid(t, from, lineEnd) ==
    LET j == FirstOf(t, {"]"}, from, lineEnd - 2)
    IN  IF j = -1 THEN -1
        ELSE IF CharAt(t, j + 1) = "(" /\ FirstOf(t, {")"}, j + 2, lineEnd - 1) # -1
             THEN j
             ELSE ImageMid(t, j + 1, lineEnd)

\* The end (exclusive) of the match of /!\[.*?\]\(.*?\)/ that starts at i, or
\* -1.  A dot never crosses a line terminator, so the whole match lies before
\* the end of the line; the second lazy .*? stops at the leftmost ")".
ImageMatchEnd(t, i) ==
    IF ~(i + 1 < Len(t) /\ CharAt(t, i) = "!" /\ CharAt(t, i + 1) = "[") THEN -1
    ELSE LET lineEnd == DotRunEnd(t, i + 2)
             mid     == ImageMid(t, i + 2, lineEnd)
         IN  IF mid = -1 THEN -1 ELSE FirstOf(t, {")"}, mid + 2, lineEnd - 1) + 1

\* lookAheadText.match(/!\[.*?\]\(.*?\)/g): the number of matches found from
\* offset pos on; a search resumes where the previous match ended, or one
\* character further when no match starts at the "!" tried.
RECURSIVE CountImageMatches(_, _)
CountImageMatches(t, pos) ==
    LET i == FirstOf(t, {"!"}, pos, Len(t) - 1)
    IN  IF i = -1 THEN 0
        ELSE LET e == ImageMatchEnd(t, i)
             IN  IF e = -1 THEN CountImageMatches(t, i + 1)
                 ELSE 1 + CountImageMatches(t, e)

(***************************************************************************)
(* The heading pattern /^#{1,6}\s+.+$/gm of parseHeadingsWithCallouts and  *)
(* collectHeadings                                                         *)
(***************************************************************************)

MAX_HEADING_LEVEL == 6

\* ^ with the m flag: the start of the text or just after a line terminator.
IsLineStart(t, p) == p = 0 \/ CharAt(t, p - 1) \in LineTerminators

\* The number of "#" characters starting at p.
HashRun(t, p) == OrEnd(t, FirstNotOf(t, {"#"}, p, Len(t) - 1)) - p

\* The ways ^#{1,6}\s+ can match at p so that .+ finds a character: h hashes,
\* then w whitespace characters (\s matches line breaks too), then a dot.
HeadingSplits(t, p) ==
    UNION {{<<h, w>> : w \in {x \in 1..(WsRunEnd(t, p + h) - (p + h)) :
                                 /\ p + h + x < Len(t)
                                 /\ IsDot(CharAt(t, p + h + x))}} :
           h \in 1..Min(HashRun(t, p), MAX_HEADING_LEVEL)}

\* The end (exclusive) of the match of the heading pattern starting at p, or
\* -1 when there is none.  Every quantifier is greedy: the longest run of
\* hashes that still matches, then the longest run of whitespace, then the
\* dots up to the end of that line, where $ holds.
HeadingMatchEnd(t, p) ==
    LET S == IF p < Len(t) /\ IsLineStart(t, p) THEN HeadingSplits(t, p) ELSE {}
    IN  IF S = {} THEN -1
        ELSE LET h == CHOOSE x \in {hw[1] : hw \in S} : \A y \in {hw[1] : hw \in S} : y <= x
                 w == CHOOSE x \in {hw[2] : hw \in S} :
                          /\ <<h, x>> \in S
                          /\ \A y \in {hw[2] : hw \in S} : <<h, y>> \in S => y <= x
             IN  DotRunEnd(t, p + h + w)

\* The matches headingPattern.exec finds from lastIndex = pos on, in order,
\* each [index, end) with end exclusive.
RECURSIVE HeadingMatches(_, _)
HeadingMatches(t, pos) ==
    LET p == FirstOf(t, {"#"}, pos, Len(t) - 1)
    IN  IF p = -1 THEN <<>>
        ELSE LET e == HeadingMatchEnd(t, p)
             IN  IF e = -1 THEN HeadingMatches(t, p + 1)
                 ELSE <<[index |-> p, end |-> e]>> \o HeadingMatches(t, e)

\* match[0].match(/^#+/)?.[0].length ?? 1
HeadingLevel(m0) == IF HashRun(m0, 0) = 0 THEN 1 ELSE HashRun(m0, 0)

\* match[0].replace(/^#{1,6}\s*/, "").trim()
HeadingText(m0) ==
    LET h == Min(HashRun(m0, 0), MAX_HEADING_LEVEL)
    IN  IF h = 0 THEN Trim(m0) ELSE Trim(Substring(m0, WsRunEnd(m0, h), Len(m0)))

(***************************************************************************)
(* documentParser.ts: parseCallout, getCalloutColor, parseHeadingsWithCallouts *)
(***************************************************************************)

LowerLetters == <<"a", "b", "c", "d", "e", "f", "g", "h", "i", "j", "k", "l", "m", "n", "o", "p", "q", "r", "s", "t", "u", "v", "w", "x", "y", "z">>
UpperLetters == <<"A", "B", "C", "D", "E", "F", "G", "H", "I", "J", "K", "L", "M", "N", "O", "P", "Q", "R", "S", "T", "U", "V", "W", "X", "Y", "Z">>

IsUpper(c) == \E i \in 1..Len(UpperLetters) : UpperLetters[i] = c
IsLower(c) == \E i \in 1..Len(LowerLetters) : LowerLetters[i] = c

ToLowerChar(c) ==
    IF IsUpper(c) THEN LowerLetters[CHOOSE i \in 1..Len(UpperLetters) : UpperLetters[i] = c]
    ELSE c

ToUpperChar(c) ==
    IF IsLower(c) THEN UpperLetters[CHOOSE i \in 1..Len(LowerLetters) : LowerLetters[i] = c]
    ELSE c

\* String.prototype.toLowerCase
ToLowerCase(s) == [i \in 1..Len(s) |-> ToLowerChar(s[i])]

\* String.prototype.startsWith
StartsWith(s, prefix) == Len(s) >= Len(prefix) /\ SubSeq(s, 1, Len(prefix)) = prefix

\* getCalloutColor: the colorMap literal, lines 214-241.
colorMap ==
    {[key |-> <<"b", "u", "g">>, color |-> "rgb(233, 49, 71)"],
     [key |-> <<"d", "e", "f", "a", "u", "l", "t">>, color |-> "rgb(8, 109, 221)"],
     [key |-> <<"e", "r", "r", "o", "r">>, color |-> "rgb(233, 49, 71)"],
     [key |-> <<"f", "a", "i", "l">>, color |-> "rgb(233, 49, 71)"],
     [key |-> <<"e", "x", "a", "m", "p", "l", "e">>, color |-> "rgb(120, 82, 238)"],
     [key |-> <<"i", "m", "p", "o", "r", "t", "a", "n", "t">>, color |-> "rgb(0, 191, 188)"],
     [key |-> <<"i", "n", "f", "o">>, color |-> "rgb(8, 109, 221)"],
     [key |-> <<"q", "u", "e", "s", "t", "i", "o", "n">>, color |-> "rgb(236, 117, 0)"],
     [key |-> <<"h", "e", "l", "p">>, color |-> "rgb(236, 117, 0)"],
     [key |-> <<"f", "a", "q">>, color |-> "rgb(236, 117, 0)"],
     [key |-> <<"s", "u", "c", "c", "e", "s", "s">>, color |-> "rgb(8, 185, 78)"],
     [key |-> <<"c", "h", "e", "c", "k">>, color |-> "rgb(8, 185, 78)"],
     [key |-> <<"d", "o", "n", "e">>, color |-> "rgb(8, 185, 78)"],
     [key |-> <<"s", "u", "m", "m", "a", "r", "y">>, color |-> "rgb(0, 191, 188)"],
     [key |-> <<"a", "b", "s", "t", "r", "a", "c", "t">>, color |-> "rgb(0, 191, 188)"],
     [key |-> <<"t", "l", "d", "r">>, color |-> "rgb(0, 191, 188)"],
     [key |-> <<"t", "i", "p">>, color |-> "rgb(0, 191, 188)"],
     [key |-> <<"h", "i", "n", "t">>, color |-> "rgb(0, 191, 188)"],
     [key |-> <<"t", "o", "d", "o">>, color |-> "rgb(8, 109, 221)"],
     [key |-> <<"w", "a", "r", "n", "i", "n", "g">>, color |-> "rgb(236, 117, 0)"],
     [key |-> <<"c", "a", "u", "t", "i", "o", "n">>, color |-> "rgb(236, 117, 0)"],
     [key |-> <<"a", "t", "t", "e", "n", "t", "i", "o", "n">>, color |-> "rgb(236, 117, 0)"],
     [key |-> <<"d", "a", "n", "g", "e", "r">>, color |-> "rgb(233, 49, 71)"],
     [key |-> <<"n", "o", "t", "e">>, color |-> "rgb(8, 109, 221)"],
     [key |-> <<"q", "u", "o", "t", "e">>, color |-> "rgb(120, 82, 238)"],
     [key |-> <<"c", "i", "t", "e">>, color |-> "rgb(120, 82, 238)"]}

DEFAULT_CALLOUT_COLOR == "rgb(8, 109, 221)"

\* getCalloutColor(type): colorMap[typeLower] || "rgb(8, 109, 221)"
getCalloutColor(type) ==
    LET typeLower == ToLowerCase(type)
    IN  IF \E e \in colorMap : e.key = typeLower
        THEN (CHOOSE e \in colorMap : e.key = typeLower).color
        ELSE DEFAULT_CALLOUT_COLOR

\* A heading without a callout: callout is undefined.
NoCallout == [type |-> <<>>, title |-> <<>>, color |-> "undefined", startOffset |-> 0 - 1]

\* Where the type of the callout pattern /^>\s*\[!([^\]]+)\]([+-]?)\s*(.*)$/m
\* starts when the pattern is tried at p (just after "[!"), or -1 when ">",
\* the whitespace or "[!" is missing.
CalloutTypeStart(t, p) ==
    LET q == WsRunEnd(t, p + 1)
    IN  IF /\ CharAt(t, p) = ">"
           /\ q + 1 < Len(t)
           /\ CharAt(t, q) = "[" /\ CharAt(t, q + 1) = "!"
        THEN q + 2 ELSE 0 - 1

\* The offset of the "]" that closes the type of a match at p, or -1 when the
\* pattern does not match at p: [^\]]+ needs one character at least.
CalloutTypeEnd(t, p) ==
    LET a == CalloutTypeStart(t, p)
        r == IF a = -1 THEN -1 ELSE FirstOf(t, {"]"}, a, Len(t) - 1)
    IN  IF r > a THEN r ELSE 0 - 1

\* text.match(calloutPattern): the leftmost line start from pos on at which
\* the pattern matches, or -1.
RECURSIVE CalloutSearch(_, _)
CalloutSearch(t, pos) ==
    LET i == FirstOf(t, {">"}, pos, Len(t) - 1)
    IN  IF i = -1 THEN -1
        ELSE IF IsLineStart(t, i) /\ CalloutTypeEnd(t, i) # -1 THEN i
        ELSE CalloutSearch(t, i + 1)

\* type.charAt(0).toUpperCase() + type.slice(1)
Capitalize(type) ==
    IF type = <<>> THEN <<>> ELSE <<ToUpperChar(type[1])>> \o SubSeq(type, 2, Len(type))

\* parseCallout(text, startOffset), lines 250-273; NoCallout stands for null.
parseCallout(t, startOffset) ==
    LET p == CalloutSearch(t, 0)
    IN  IF p = -1 THEN NoCallout
        ELSE LET a     == CalloutTypeStart(t, p)
                 r     == CalloutTypeEnd(t, p)
                 fold  == IF r + 1 < Len(t) /\ CharAt(t, r + 1) \in {"+", "-"}
                          THEN r + 2 ELSE r + 1
                 w     == WsRunEnd(t, fold)
                 type  == Trim(Substring(t, a, r))
                 given == Trim(Substring(t, w, DotRunEnd(t, w)))
             IN  [type |-> type,
                  title |-> IF given # <<>> THEN given ELSE Capitalize(type),
                  color |-> getCalloutColor(type),
                  startOffset |-> startOffset]

CALLOUT_PREFIX == <<">", " ", "[", "!">>

\* A faulty look-ahead: the callout is searched in all the text after the
\* heading, not in its next non-empty line.  C9 must not survive it.
CalloutAfterAnywhere(content, e, headingOffset) ==
    parseCallout(Substring(content, e, Len(content)), headingOffset)

\* parseHeadingsWithCallouts, lines 53-65: the callout of the heading whose
\* match ends at e (exclusive), read off the first non-empty line after it.
CalloutAfter(content, e, headingOffset) ==
    LET s        == OrEnd(content, FirstNotOf(content, {"\n"}, e, Len(content) - 1))
        lineEnd  == OrEnd(content, FirstOf(content, {"\n"}, s, Len(content) - 1))
        nextLine == Trim(Substring(content, s, lineEnd))
    IN  IF nextLine # <<>> /\ StartsWith(nextLine, CALLOUT_PREFIX)
        THEN parseCallout(nextLine, headingOffset)
        ELSE NoCallout

\* parseHeadingsWithCallouts(content, startOffset)
parseHeadingsWithCallouts(content, startOffset) ==
    LET ms == HeadingMatches(content, 0)
    IN  [k \in 1..Len(ms) |->
            LET m0 == Substring(content, ms[k].index, ms[k].end)
            IN  [level |-> HeadingLevel(m0),
                 text |-> HeadingText(m0),
                 startOffset |-> startOffset + ms[k].index,
                 callout |-> CalloutAfter(content, ms[k].end, startOffset + ms[k].index)]]

(***************************************************************************)
(* documentParser.ts: parseFlags                                           *)
(***************************************************************************)

Letters == {LowerLetters[i] : i \in 1..Len(LowerLetters)}
               \cup {UpperLetters[i] : i \in 1..Len(UpperLetters)}
Digits == {"0", "1", "2", "3", "4", "5", "6", "7", "8", "9"}

\* [A-Za-z0-9_-], the characters of a flag type after its first letter.
TypeChars == Letters \cup Digits \cup {"_", "-"}

\* \w
WordChars == Letters \cup Digits \cup {"_"}

\* The quantifier {1,24} of the flag pattern, line 144.
MIN_TYPE_REST == 1
MAX_TYPE_REST == 24

\* String.prototype.indexOf(c, from) and lastIndexOf(c, from) for one character.
IndexOf(t, c, from) == FirstOf(t, {c}, Max(from, 0), Len(t) - 1)

RECURSIVE LastOf(_, _, _, _)
LastOf(t, C, lo, hi) ==
    IF lo > hi THEN -1
    ELSE IF lo = hi THEN (IF CharAt(t, lo) \in C THEN lo ELSE -1)
    ELSE LET r == LastOf(t, C, (lo + hi) \div 2 + 1, hi)
         IN  IF r # -1 THEN r ELSE LastOf(t, C, lo, (lo + hi) \div 2)

LastIndexOf(t, c, from) == LastOf(t, {c}, 0, Min(from, Len(t) - 1))

\* "==" or "%%" at offset i.
IsPairAt(t, i, c) == i + 1 < Len(t) /\ CharAt(t, i) = c /\ CharAt(t, i + 1) = c

NoMatch == [end |-> 0 - 1, typeEnd |-> 0 - 1, messageStart |-> 0 - 1]

\* A faulty match: the type may start with any type character, a digit too.
\* C16 must not survive it.
FlagMatchAtAnyFirst(t, i) ==
    IF ~(i + 2 < Len(t) /\ IsPairAt(t, i, "=") /\ CharAt(t, i + 2) \in TypeChars)
    THEN NoMatch
    ELSE LET runEnd == OrEnd(t, FirstNotOf(t, TypeChars, i + 3, Len(t) - 1))
             rest   == runEnd - (i + 3)
             q      == runEnd + 1
             e      == IndexOf(t, "=", q)
         IN  IF /\ rest >= MIN_TYPE_REST /\ rest <= MAX_TYPE_REST
                /\ runEnd < Len(t) /\ CharAt(t, runEnd) = ":"
                /\ e > q /\ IsPairAt(t, e, "=")
             THEN [end |-> e + 2, typeEnd |-> runEnd,
                   messageStart |-> Min(WsRunEnd(t, q), e - 1)]
             ELSE NoMatch

\* The match of /==([A-Za-z][A-Za-z0-9_-]{1,24}):\s*([^=]+)==/ that starts
\* at i, or NoMatch.  The type runs to the ":" (a type character is never a
\* ":", so the greedy run cannot give any back); [^=]+ runs to the next "=",
\* which must open "=="; \s* gives back its last character when it would
\* leave the message empty.  The message is [messageStart, end - 2).
FlagMatchAt(t, i) ==
    IF ~(i + 2 < Len(t) /\ IsPairAt(t, i, "=") /\ CharAt(t, i + 2) \in Letters)
    THEN NoMatch
    ELSE LET runEnd == OrEnd(t, FirstNotOf(t, TypeChars, i + 3, Len(t) - 1))
             rest   == runEnd - (i + 3)
             q      == runEnd + 1
             e      == IndexOf(t, "=", q)
         IN  IF /\ rest >= MIN_TYPE_REST /\ rest <= MAX_TYPE_REST
                /\ runEnd < Len(t) /\ CharAt(t, runEnd) = ":"
                /\ e > q /\ IsPairAt(t, e, "=")
             THEN [end |-> e + 2, typeEnd |-> runEnd,
                   messageStart |-> Min(WsRunEnd(t, q), e - 1)]
             ELSE NoMatch

\* The match of /%%([^%]+)%%/ that starts at i: its end (exclusive), or -1.
CommentMatchEnd(t, i) ==
    LET e == IndexOf(t, "%", i + 2)
    IN  IF IsPairAt(t, i, "%") /\ e > i + 2 /\ IsPairAt(t, e, "%") THEN e + 2 ELSE 0 - 1

\* The trimmed line around a match [index, end), lines 152-159.
LineTextOf(content, index, end) ==
    LET startOfLine == LastIndexOf(content, "\n", index)
        endOfLine   == IndexOf(content, "\n", end)
    IN  Trim(Substring(content,
                       IF startOfLine = -1 THEN 0 ELSE startOfLine + 1,
                       IF endOfLine = -1 THEN Len(content) ELSE endOfLine))

\* The first loop of parseFlags, lines 147-168, from lastIndex = pos on.  The
\* color of a flag is looked up in a map the settings can replace; it is left
\* out of the record.
RECURSIVE TypedFlagsFrom(_, _, _)
TypedFlagsFrom(content, baseOffset, pos) ==
    LET i == IndexOf(content, "=", pos)
    IN  IF i = -1 THEN <<>>
        ELSE LET m == FlagMatchAt(content, i)
             IN  IF m = NoMatch THEN TypedFlagsFrom(content, baseOffset, i + 1)
                 ELSE <<[type |-> Substring(content, i + 2, m.typeEnd),
                         message |-> Trim(Substring(content, m.messageStart, m.end - 2)),
                         startOffset |-> baseOffset + i,
                         lineText |-> LineTextOf(content, i, m.end)]>>
                      \o TypedFlagsFrom(content, baseOffset, m.end)

COMMENT_TYPE == <<"C", "O", "M", "M", "E", "N", "T">>

\* The second loop of parseFlags, lines 172-192.
RECURSIVE CommentFlagsFrom(_, _, _)
CommentFlagsFrom(content, baseOffset, pos) ==
    LET i == IndexOf(content, "%", pos)
    IN  IF i = -1 THEN <<>>
        ELSE LET e == CommentMatchEnd(content, i)
             IN  IF e = -1 THEN CommentFlagsFrom(content, baseOffset, i + 1)
                 ELSE <<[type |-> COMMENT_TYPE,
                         message |-> Trim(Substring(content, i + 2, e - 2)),
                         startOffset |-> baseOffset + i,
                         lineText |-> LineTextOf(content, i, e)]>>
                      \o CommentFlagsFrom(content, baseOffset, e)

\* parseFlags(content, baseOffset): the typed flags, then the comments.
parseFlags(content, baseOffset) ==
    TypedFlagsFrom(content, baseOffset, 0) \o CommentFlagsFrom(content, baseOffset, 0)

(***************************************************************************)
(* miniMapRenderer.ts: tokenizeContent and findHeadingLineEnd              *)
(***************************************************************************)

\* findHeadingLineEnd(content, relativeStart), lines 520-532.
findHeadingLineEnd(content, relativeStart) ==
    LET end == IndexOf(content, "\n", relativeStart)
    IN  IF end = -1 THEN Len(content)
        ELSE OrEnd(content, FirstNotOf(content, {"\n"}, end + 1, Len(content) - 1))

\* The match of ==\w+:[^=]+== that starts at i: its end (exclusive), or -1.
SkipFlagEnd(t, i) ==
    LET runEnd == OrEnd(t, FirstNotOf(t, WordChars, i + 2, Len(t) - 1))
        e      == IndexOf(t, "=", runEnd + 1)
    IN  IF /\ IsPairAt(t, i, "=")
           /\ runEnd > i + 2 /\ runEnd < Len(t) /\ CharAt(t, runEnd) = ":"
           /\ e > runEnd + 1 /\ IsPairAt(t, e, "=")
        THEN e + 2 ELSE 0 - 1

\* content.substring(pos).match(/==\w+:[^=]+==|%%[^%]+%%/): the length of the
\* leftmost match found from pos on, wherever it starts, or -1 for null.
RECURSIVE SkipMatchLength(_, _)
SkipMatchLength(t, pos) ==
    LET i == FirstOf(t, {"=", "%"}, pos, Len(t) - 1)
    IN  IF i = -1 THEN -1
        ELSE LET e == IF SkipFlagEnd(t, i) # -1 THEN SkipFlagEnd(t, i)
                      ELSE CommentMatchEnd(t, i)
             IN  IF e # -1 THEN e - i ELSE SkipMatchLength(t, i + 1)

\* Array.prototype.sort((a, b) => a.offset - b.offset): a stable sort.
RECURSIVE SortByOffset(_)
SortByOffset(items) ==
    IF Len(items) <= 1 THEN items
    ELSE LET sorted == SortByOffset(SubSeq(items, 1, Len(items) - 1))
             x      == items[Len(items)]
             n      == Cardinality({k \in 1..Len(sorted) : sorted[k].offset <= x.offset})
         IN  SubSeq(sorted, 1, n) \o <<x>> \o SubSeq(sorted, n + 1, Len(sorted))

\* tokenizeContent, lines 396-421: the headings and the flags of the page,
\* each sorted by offset, merged and sorted by offset.
specialItems(page) ==
    LET hs == SortByOffset([k \in 1..Len(page.headings) |->
                  [type |-> "heading", offset |-> page.headings[k].startOffset]])
        fs == SortByOffset([k \in 1..Len(page.flags) |->
                  [type |-> "flag", offset |-> page.flags[k].startOffset]])
    IN  SortByOffset(hs \o fs)

(***************************************************************************)
(* simplePagination.ts                                                     *)
(***************************************************************************)

BASE_WORDS == 500
WORDS_PER_IMAGE == 100
MIN_WORDS_PER_PAGE == 50
MAX_PAGES == 10000

\* collectHeadings(content, startOffset)
collectHeadings(content, startOffset) ==
    LET ms == HeadingMatches(content, 0)
    IN  [k \in 1..Len(ms) |->
            LET m0 == Substring(content, ms[k].index, ms[k].end)
            IN  [level |-> HeadingLevel(m0),
                 text |-> HeadingText(m0),
                 startOffset |-> startOffset + ms[k].index]]

\* A faulty page builder: the page ends where its last word starts, so that
\* word is cut off.  C1 must not survive it.
SimplePageAtCutsLastWord(t, wm, cur, pn) ==
    LET imageCount    == CountImageMatches(
                             Substring(t, wm[cur + 1].index,
                                       IF Min(cur + BASE_WORDS, Len(wm)) < Len(wm)
                                       THEN wm[Min(cur + BASE_WORDS, Len(wm)) + 1].index
                                       ELSE Len(t)), 0)
        wordsThisPage == Max(MIN_WORDS_PER_PAGE, BASE_WORDS - imageCount * WORDS_PER_IMAGE)
        endWordIndex  == Min(cur + wordsThisPage, Len(wm))
        startOffset   == wm[cur + 1].index
        endOffset     == wm[endWordIndex].index
        content       == Substring(t, startOffset, endOffset)
    IN  [content |-> content,
         wordCount |-> endWordIndex - cur,
         startOffset |-> startOffset,
         endOffset |-> endOffset,
         pageNumber |-> pn,
         headings |-> collectHeadings(content, startOffset)]

\* A faulty page builder: the look-ahead text starts at the beginning of the
\* document instead of the page's first word.  C13 must not survive it.
SimplePageAtLooksFromStart(t, wm, cur, pn) ==
    LET imageCount    == CountImageMatches(
                             Substring(t, 0,
                                       IF Min(cur + BASE_WORDS, Len(wm)) < Len(wm)
                                       THEN wm[Min(cur + BASE_WORDS, Len(wm)) + 1].index
                                       ELSE Len(t)), 0)
        wordsThisPage == Max(MIN_WORDS_PER_PAGE, BASE_WORDS - imageCount * WORDS_PER_IMAGE)
        endWordIndex  == Min(cur + wordsThisPage, Len(wm))
        startOffset   == wm[cur + 1].index
        endOffset     == wm[endWordIndex].index + wm[endWordIndex].len
        content       == Substring(t, startOffset, endOffset)
    IN  [content |-> content,
         wordCount |-> endWordIndex - cur,
         startOffset |-> startOffset,
         endOffset |-> endOffset,
         pageNumber |-> pn,
         headings |-> collectHeadings(content, startOffset)]

\* A faulty page builder: the word count is one short, so a one-word page
\* reports no word.  C3 must not survive it.
SimplePageAtOffByOne(t, wm, cur, pn) ==
    LET imageCount    == CountImageMatches(
                             Substring(t, wm[cur + 1].index,
                                       IF Min(cur + BASE_WORDS, Len(wm)) < Len(wm)
                                       THEN wm[Min(cur + BASE_WORDS, Len(wm)) + 1].index
                                       ELSE Len(t)), 0)
        wordsThisPage == Max(MIN_WORDS_PER_PAGE, BASE_WORDS - imageCount * WORDS_PER_IMAGE)
        endWordIndex  == Min(cur + wordsThisPage, Len(wm))
        startOffset   == wm[cur + 1].index
        endOffset     == wm[endWordIndex].index + wm[endWordIndex].len
        content       == Substring(t, startOffset, endOffset)
    IN  [content |-> content,
         wordCount |-> endWordIndex - cur - 1,
         startOffset |-> startOffset,
         endOffset |-> endOffset,
         pageNumber |-> pn,
         headings |-> collectHeadings(content, startOffset)]

\* The body of one iteration of paginateDocument's while loop: the page built
\* from the word at index cur on.
SimplePageAt(t, wm, cur, pn) ==
    LET lookAheadEnd    == Min(cur + BASE_WORDS, Len(wm))
        lookAheadStart  == wm[cur + 1].index
        lookAheadEndPos == IF lookAheadEnd < Len(wm) THEN wm[lookAheadEnd + 1].index
                           ELSE Len(t)
        lookAheadText   == Substring(t, lookAheadStart, lookAheadEndPos)
        imageCount      == CountImageMatches(lookAheadText, 0)
        wordsThisPage   == Max(MIN_WORDS_PER_PAGE, BASE_WORDS - imageCount * WORDS_PER_IMAGE)
        endWordIndex    == Min(cur + wordsThisPage, Len(wm))
        firstWord       == wm[cur + 1]
        lastWord        == wm[endWordIndex]
        startOffset     == firstWord.index
        endOffset       == lastWord.index + lastWord.len
        content         == Substring(t, startOffset, endOffset)
    IN  [content |-> content,
         wordCount |-> endWordIndex - cur,
         startOffset |-> startOffset,
         endOffset |-> endOffset,
         pageNumber |-> pn,
         headings |-> collectHeadings(content, startOffset)]

\* paginateDocument, lines 9-27: the guards and the word scan.
SimpleStart ==
    /\ algo = "simple" /\ pc = "start"
    /\ IF IsBlank(text)
       THEN /\ pc' = "done"
            /\ UNCHANGED wordMatches
       ELSE /\ wordMatches' = MatchAllWords(text)
            /\ pc' = IF Len(wordMatches') = 0 THEN "done" ELSE "loop"
    /\ UNCHANGED <<renderVars, stackVars, scratchVars, colorVars, stripVars, viewVars, inputVars, fastVars, measurerVars, currentWordIndex, pageNumber, pages, adaptiveVars>>

\* paginateDocument, lines 29-78: one iteration of the while loop, and the
\* return when the loop condition or the safety check ends it.
SimplePage ==
    /\ algo = "simple" /\ pc = "loop"
    /\ currentWordIndex < Len(wordMatches)
    /\ LET page == SimplePageAt(text, wordMatches, currentWordIndex, pageNumber)
       IN  /\ pages' = Append(pages, page)
           /\ currentWordIndex' = currentWordIndex + page.wordCount
           /\ pageNumber' = pageNumber + 1
           /\ pc' = IF pageNumber' > MAX_PAGES \/ currentWordIndex' >= Len(wordMatches)
                    THEN "done" ELSE "loop"
    /\ UNCHANGED <<renderVars, stackVars, scratchVars, colorVars, stripVars, viewVars, inputVars, fastVars, measurerVars, wordMatches, adaptiveVars>>

\* paginateDocument(text) as a whole: the pages it returns.
RECURSIVE SimplePagesFrom(_, _, _, _)
SimplePagesFrom(t, wm, cur, pn) ==
    IF ~(cur < Len(wm)) THEN <<>>
    ELSE LET page == SimplePageAt(t, wm, cur, pn)
         IN  <<page>> \o (IF pn + 1 > MAX_PAGES THEN <<>>
                          ELSE SimplePagesFrom(t, wm, cur + page.wordCount, pn + 1))

paginateDocument(t) ==
    IF IsBlank(t) THEN <<>> ELSE SimplePagesFrom(t, MatchAllWords(t), 0, 0)

(***************************************************************************)
(* paginateDocument on a document of image links                           *)
(*                                                                         *)
(* The document of n image links "![](u)", each followed by a space, is    *)
(* given by n alone (wordTotal): its k-th word starts at offset            *)
(* k * IMAGE_STRIDE, and the look-ahead text of a page holds as many image *)
(* links as it holds words.  Of a page only its wordCount is kept, and     *)
(* successive pages of one wordCount are kept as one run of pages:         *)
(* [wordCount, count] stands for count pages of wordCount words each.      *)
(***************************************************************************)

IMAGE_WORD == <<"!", "[", "]", "(", "u", ")">>
IMAGE_STRIDE == Len(IMAGE_WORD) + 1

\* The text of the document of n image links.
ImageWordsText(n) == Rep(IMAGE_WORD \o <<" ">>, n)

\* paginateDocument, lines 31-69, for the document of n image links.
ImageWordsPageAt(n, cur) ==
    LET lookAheadEnd  == Min(cur + BASE_WORDS, n)
        imageCount    == lookAheadEnd - cur
        wordsThisPage == Max(MIN_WORDS_PER_PAGE, BASE_WORDS - imageCount * WORDS_PER_IMAGE)
        endWordIndex  == Min(cur + wordsThisPage, n)
    IN  [wordCount |-> endWordIndex - cur]

\* pages.push(page) on runs of pages.
PushRun(runs, page) ==
    IF runs # <<>> /\ runs[Len(runs)].wordCount = page.wordCount
    THEN [runs EXCEPT ![Len(runs)].count = @ + 1]
    ELSE Append(runs, [wordCount |-> page.wordCount, count |-> 1])

\* paginateDocument, lines 9-27, for the document of wordTotal image links.
ImageWordsStart ==
    /\ algo = "simple-images" /\ pc = "start"
    /\ pc' = IF wordTotal = 0 THEN "done" ELSE "loop"
    /\ UNCHANGED <<renderVars, stackVars, scratchVars, colorVars, stripVars, viewVars, inputVars, fastVars, measurerVars, wordMatches, currentWordIndex, pageNumber,
                   pages, adaptiveVars>>

\* paginateDocument, lines 29-78, for the document of wordTotal image links.
ImageWordsPage ==
    /\ algo = "simple-images" /\ pc = "loop"
    /\ currentWordIndex < wordTotal
    /\ LET page == ImageWordsPageAt(wordTotal, currentWordIndex)
       IN  /\ pages' = PushRun(pages, page)
           /\ currentWordIndex' = currentWordIndex + page.wordCount
           /\ pageNumber' = pageNumber + 1
           /\ pc' = IF pageNumber' > MAX_PAGES \/ currentWordIndex' >= wordTotal
                    THEN "done" ELSE "loop"
    /\ UNCHANGED <<renderVars, stackVars, scratchVars, colorVars, stripVars, viewVars, inputVars, fastVars, measurerVars, wordMatches, adaptiveVars>>

(***************************************************************************)
(* documentParser.ts: parseDocumentIntoPages(text, wordsPerPage)           *)
(***************************************************************************)

\* Array.prototype.slice(a, b) for 0 <= a: the elements a..b-1 (0-based),
\* none when b <= a.
Slice(seq, a, b) == SubSeq(seq, a + 1, Min(b, Len(seq)))

\* A faulty page builder: the end offset is taken one character too far.
\* C2 must not survive it.
LegacyPageOfInclusiveEnd(t, pageWordMatches, pn) ==
    LET firstWord   == pageWordMatches[1]
        lastWord    == pageWordMatches[Len(pageWordMatches)]
        startOffset == firstWord.index
        endOffset   == lastWord.index + lastWord.len + 1
    IN  [content |-> Substring(t, startOffset, endOffset),
         wordCount |-> Len(pageWordMatches),
         startOffset |-> startOffset,
         endOffset |-> endOffset,
         pageNumber |-> pn,
         headings |-> <<>>]

\* The body of one iteration of the for loop, lines 104-119, for a non-empty
\* slice of word matches.
LegacyPageOf(t, pageWordMatches, pn) ==
    LET firstWord   == pageWordMatches[1]
        lastWord    == pageWordMatches[Len(pageWordMatches)]
        startOffset == firstWord.index
        endOffset   == lastWord.index + lastWord.len
    IN  [content |-> Substring(t, startOffset, endOffset),
         wordCount |-> Len(pageWordMatches),
         startOffset |-> startOffset,
         endOffset |-> endOffset,
         pageNumber |-> pn,
         headings |-> <<>>]

\* parseDocumentIntoPages, lines 86-100.
LegacyStart ==
    /\ algo = "legacy" /\ pc = "start"
    /\ IF IsBlank(text)
       THEN /\ pc' = "done"
            /\ UNCHANGED wordMatches
       ELSE /\ wordMatches' = MatchAllWords(text)
            /\ pc' = IF Len(wordMatches') = 0 THEN "done" ELSE "loop"
    /\ UNCHANGED <<renderVars, stackVars, scratchVars, colorVars, stripVars, viewVars, inputVars, fastVars, measurerVars, currentWordIndex, pageNumber, pages, adaptiveVars>>

\* parseDocumentIntoPages, lines 103-120: one iteration of the for loop.  An
\* empty slice leaves firstWord undefined and firstWord.index throws.
LegacyPage ==
    /\ algo = "legacy" /\ pc = "loop"
    /\ currentWordIndex < Len(wordMatches)
    /\ LET pageWordMatches == Slice(wordMatches, currentWordIndex,
                                    currentWordIndex + wordsPerPage)
       IN  IF Len(pageWordMatches) = 0
           THEN /\ pc' = "threw"
                /\ UNCHANGED <<pages, currentWordIndex, pageNumber>>
           ELSE /\ pages' = Append(pages, LegacyPageOf(text, pageWordMatches, pageNumber))
                /\ pageNumber' = pageNumber + 1
                /\ currentWordIndex' = currentWordIndex + wordsPerPage
                /\ pc' = IF currentWordIndex' < Len(wordMatches) THEN "loop" ELSE "done"
    /\ UNCHANGED <<renderVars, stackVars, scratchVars, colorVars, stripVars, viewVars, inputVars, fastVars, measurerVars, wordMatches, adaptiveVars>>

(***************************************************************************)
(* The adaptive paginator: ContentMeasurer and AdaptivePaginator           *)
(***************************************************************************)

MIN_WORDS == 10              \* findOptimalWordCount: minWords, and the fallback
MIN_ESTIMATE == 50           \* estimateStartingWordCount: Math.max(50, ...)
DEFAULT_MAX_ITERATIONS == 10 \* options.maxIterations ?? 10

\* The page box of the model: pageDimensions.height and .paddingVertical.
PageHeight == 6
PaddingVertical == 1
pageDimensions == [height |-> PageHeight, paddingVertical |-> PaddingVertical]

NoFit == [wordCount |-> 0, content |-> <<>>, contentHeight |-> -1]

\* ContentMeasurer.getAvailableContentHeight
getAvailableContentHeight(dims) == dims.height - 2 * dims.paddingVertical

\* ContentMeasurer.doesContentFit
doesContentFit(measurement, dims) ==
    measurement.contentHeight <= getAvailableContentHeight(dims)

\* ContentMeasurer.estimateStartingWordCount: Math.max(50, wordsPerPage), for
\* the floor of the font-metric arithmetic handed in as raw.
estimateStartingWordCount(raw) == Max(MIN_ESTIMATE, raw)

\* The measurement oracle.  AnyOracle may report any height for any content,
\* also different heights for the same content; the model keeps the two
\* heights at which fitting is decided.  An oracle with a capacity cap >= 0
\* reports a height that fits exactly for the contents of at most cap words
\* (a rendering whose height grows with the number of words).
AnyOracle == 0 - 1

OracleHeights(cap, wordCount) ==
    LET avail == getAvailableContentHeight(pageDimensions)
    IN  IF cap = AnyOracle THEN {avail, avail + 1}
        ELSE IF wordCount <= cap THEN {avail} ELSE {avail + 1}

\* Whether a call of MarkdownRenderer.render throws, under the renderer of
\* this behaviour.
RenderThrows ==
    IF renderer = "ok" THEN {FALSE} ELSE IF renderer = "throws" THEN {TRUE} ELSE BOOLEAN

\* ContentMeasurer.measureContent, lines 86-105: the scrollHeight measured.
\* When the renderer threw, the element holds the markdown as plain text
\* (measureEl.setText), whose height is any height as well.
MeasuredHeights(threw, cap, n) ==
    IF threw THEN OracleHeights(AnyOracle, n) ELSE OracleHeights(cap, n)

\* The render calls that threw, after one more call.
FailuresAfter(threw) == renderFailures + (IF threw THEN 1 ELSE 0)

\* The number of words tryWordCount hands to the oracle.
CandidateWords(wm, startIdx, wordCount) == Min(startIdx + wordCount, Len(wm)) - startIdx

\* wordMatches.findIndex(match => match.index >= startOffset), 0-based, -1
\* when there is none.
RECURSIVE FirstWordFrom(_, _, _, _)
FirstWordFrom(wm, startOffset, lo, hi) ==
    IF lo > hi THEN -1
    ELSE IF lo = hi THEN (IF wm[lo + 1].index >= startOffset THEN lo ELSE -1)
    ELSE LET l == FirstWordFrom(wm, startOffset, lo, (lo + hi) \div 2)
         IN  IF l # -1 THEN l
             ELSE FirstWordFrom(wm, startOffset, (lo + hi) \div 2 + 1, hi)

FindWordIndex(wm, startOffset) == FirstWordFrom(wm, startOffset, 0, Len(wm) - 1)

\* tryWordCount, lines 428-444 and 453-457: the candidate of wordCount words
\* from startIdx on, measured with height h; NoFit stands for null.
tryWordCount(t, wm, startIdx, wordCount, h) ==
    LET endWordIndex == Min(startIdx + wordCount, Len(wm))
    IN  IF endWordIndex <= startIdx THEN NoFit
        ELSE LET firstWord == wm[startIdx + 1]
                 lastWord  == wm[endWordIndex]
             IN  [wordCount |-> endWordIndex - startIdx,
                  content |-> Substring(t, firstWord.index, lastWord.index + lastWord.len),
                  contentHeight |-> h]

\* A faulty while condition: the iteration cap is forgotten.  C10 must not
\* survive it.
SearchContinuesUncapped(lo, hi, its) == lo < hi

\* The while condition of the binary search, line 375.
SearchContinues(lo, hi, its) == lo < hi /\ its < maxIterations

\* Where findOptimalWordCount goes once a measurement is recorded: on with
\* the binary search, to the fallback when nothing fit, or back to createPage.
AfterMeasure(lo, hi, its, best) ==
    IF SearchContinues(lo, hi, its) THEN "search"
    ELSE IF best = NoFit THEN "fallback" ELSE "emit"

\* parseDocument, lines 231-248.
AdaptiveStart ==
    /\ algo = "adaptive" /\ pc = "start"
    /\ IF IsBlank(text)
       THEN /\ pc' = "done"
            /\ UNCHANGED wordMatches
       ELSE /\ wordMatches' = MatchAllWords(text)
            /\ pc' = IF Len(wordMatches') = 0 THEN "done" ELSE "page"
    /\ UNCHANGED <<renderVars, stackVars, scratchVars, colorVars, stripVars, viewVars, inputVars, fastVars, measurerVars, currentWordIndex, pageNumber, pages, adaptiveVars>>

\* parseDocument, line 250, createPage, lines 287-306, and findOptimalWordCount,
\* lines 343-354: the loop test, the first word of the page, the search range.
AdaptiveCreatePage ==
    /\ algo = "adaptive" /\ pc = "page"
    /\ LET idx == FindWordIndex(wordMatches, currentOffset)
           hi0 == Min(estimatedWords * 2, Len(wordMatches) - idx)
       IN  IF ~(currentOffset < Len(text)) \/ idx = -1
           THEN /\ pc' = "done"
                /\ UNCHANGED adaptiveVars
           ELSE /\ pc' = "estimate"
                /\ startWordIndex' = idx
                /\ minWords' = MIN_WORDS
                /\ maxWords' = IF hi0 < MIN_WORDS THEN MIN_WORDS ELSE hi0
                /\ bestFit' = NoFit
                /\ iterations' = 0
                /\ measureLog' = <<>>
                /\ UNCHANGED currentOffset
    /\ UNCHANGED <<renderVars, stackVars, scratchVars, colorVars, stripVars, viewVars, inputVars, fastVars, measurerVars, wordMatches, currentWordIndex, pageNumber, pages>>

\* findOptimalWordCount, lines 357-372: the measurement of the estimate.
AdaptiveMeasureEstimate ==
    /\ algo = "adaptive" /\ pc = "estimate"
    /\ \E threw \in RenderThrows :
      \E h \in MeasuredHeights(threw, oracleCap,
                CandidateWords(wordMatches, startWordIndex, Min(estimatedWords, maxWords))) :
         LET r == tryWordCount(text, wordMatches, startWordIndex,
                               Min(estimatedWords, maxWords), h)
             fits == r # NoFit /\ doesContentFit(r, pageDimensions)
         IN  /\ bestFit' = IF fits THEN r ELSE bestFit
             /\ minWords' = IF fits THEN r.wordCount ELSE minWords
             /\ maxWords' = IF ~fits /\ r # NoFit THEN r.wordCount ELSE maxWords
             /\ measureLog' = Append(measureLog,
                    [kind |-> "estimate", wordCount |-> r.wordCount, fits |-> fits])
             /\ pc' = AfterMeasure(minWords', maxWords', iterations, bestFit')
             /\ renderFailures' = FailuresAfter(threw)
    /\ UNCHANGED <<renderVars, stackVars, scratchVars, colorVars, stripVars, viewVars, inputVars, fastVars, wordMatches, currentWordIndex, pageNumber, pages,
                   currentOffset, startWordIndex, iterations>>

\* findOptimalWordCount, lines 375-401: one iteration of the binary search.
AdaptiveSearchStep ==
    /\ algo = "adaptive" /\ pc = "search"
    /\ \E threw \in RenderThrows :
      \E h \in MeasuredHeights(threw, oracleCap,
                CandidateWords(wordMatches, startWordIndex, (minWords + maxWords + 1) \div 2)) :
         LET midWords == (minWords + maxWords + 1) \div 2
             r == tryWordCount(text, wordMatches, startWordIndex, midWords, h)
             fits == doesContentFit(r, pageDimensions)
         IN  IF r = NoFit
             THEN /\ pc' = IF bestFit = NoFit THEN "fallback" ELSE "emit"
                  /\ UNCHANGED <<bestFit, minWords, maxWords, iterations, measureLog,
                                 renderFailures>>
             ELSE /\ bestFit' = IF fits THEN r ELSE bestFit
                  /\ minWords' = IF fits THEN midWords ELSE minWords
                  /\ maxWords' = IF fits THEN maxWords ELSE midWords - 1
                  /\ iterations' = iterations + 1
                  /\ measureLog' = Append(measureLog,
                         [kind |-> "search", wordCount |-> r.wordCount, fits |-> fits])
                  /\ pc' = AfterMeasure(minWords', maxWords', iterations', bestFit')
                  /\ renderFailures' = FailuresAfter(threw)
    /\ UNCHANGED <<renderVars, stackVars, scratchVars, colorVars, stripVars, viewVars, inputVars, fastVars, wordMatches, currentWordIndex, pageNumber, pages,
                   currentOffset, startWordIndex>>

\* findOptimalWordCount, lines 404-416: nothing fit, the minimum-viable page.
AdaptiveFallback ==
    /\ algo = "adaptive" /\ pc = "fallback"
    /\ \E threw \in RenderThrows :
      \E h \in MeasuredHeights(threw, oracleCap,
                CandidateWords(wordMatches, startWordIndex, MIN_WORDS)) :
         LET r == tryWordCount(text, wordMatches, startWordIndex, MIN_WORDS, h)
         IN  /\ bestFit' = IF r # NoFit THEN r ELSE bestFit
             /\ measureLog' = Append(measureLog,
                    [kind |-> "fallback", wordCount |-> r.wordCount,
                     fits |-> r # NoFit /\ doesContentFit(r, pageDimensions)])
             /\ renderFailures' = FailuresAfter(threw)
    /\ pc' = "emit"
    /\ UNCHANGED <<renderVars, stackVars, scratchVars, colorVars, stripVars, viewVars, inputVars, fastVars, wordMatches, currentWordIndex, pageNumber, pages,
                   currentOffset, startWordIndex, minWords, maxWords, iterations>>

\* createPage, lines 308-331, and parseDocument, lines 258-271: the page of
\* the result found, the next offset, the safety check.
AdaptiveEmit ==
    /\ algo = "adaptive" /\ pc = "emit"
    /\ IF bestFit = NoFit
       THEN /\ pc' = "done"
            /\ UNCHANGED <<pages, currentOffset, pageNumber>>
       ELSE LET firstWord == wordMatches[startWordIndex + 1]
                lastWord  == wordMatches[startWordIndex + bestFit.wordCount]
                actualEndOffset == lastWord.index + lastWord.len
            IN  /\ pages' = Append(pages,
                       [content |-> bestFit.content,
                        wordCount |-> bestFit.wordCount,
                        startOffset |-> firstWord.index,
                        endOffset |-> actualEndOffset,
                        pageNumber |-> pageNumber,
                        headings |-> <<>>])
                /\ currentOffset' = actualEndOffset
                /\ pageNumber' = pageNumber + 1
                /\ pc' = IF pageNumber' > MAX_PAGES THEN "done" ELSE "page"
    /\ UNCHANGED <<renderVars, stackVars, scratchVars, colorVars, stripVars, viewVars, inputVars, fastVars, measurerVars, wordMatches, currentWordIndex,
                   startWordIndex, minWords, maxWords, bestFit, iterations, measureLog>>

(***************************************************************************)
(* fastPagination.ts: FastPaginator                                        *)
(*                                                                         *)
(* Heights are counted in halves of a pixel, so that the substitute height *)
(* markdown.length * 0.5 of a failed measurement is a whole number.        *)
(***************************************************************************)

MAX_ATTEMPTS == 3     \* fitContent: maxAttempts
FAST_MIN_WORDS == 10  \* fitContent: Math.min(10, ...), the minimum viable page

\* Math.floor(wordCount * 1.4) and Math.floor(wordCount * 0.7) in IEEE double
\* arithmetic, for wordCount below FLOAT_TABLE_END: the product falls just
\* below a whole number for the word counts listed.
FLOAT_TABLE_END == 325
GrowRoundsDown == {45, 85, 90, 165, 170, 175, 180}
ShrinkRoundsDown == {90, 170, 180}
\* A faulty shrink: no word is left to try.  C22 must not survive it.
ShrinkWordsToNothing(w) == 0

GrowWords(w) == (w * 14) \div 10 - (IF w \in GrowRoundsDown THEN 1 ELSE 0)
ShrinkWords(w) == (w * 7) \div 10 - (IF w \in ShrinkRoundsDown THEN 1 ELSE 0)

\* parseDocument, line 50: availableHeight, in halves.
FastAvailableHalves == 2 * (pageHeight - 2 * PaddingVertical)

\* What measureContentHeight would hand on without its catch block: the
\* exception of the renderer.
Uncaught == 0 - 1

\* A faulty measurement: the exception of the renderer is not caught.  C11
\* must not survive it.
FastHeightsUncaught(threw, content) ==
    IF threw THEN {Uncaught}
    ELSE {0, FastAvailableHalves, FastAvailableHalves + 2}

\* measureContentHeight, lines 190-216, in halves: the scrollHeight of the
\* rendering (any height: one that leaves the page less than 70% full, one
\* that fills it, one that overflows it), or markdown.length * 0.5 when the
\* renderer threw.
FastHeights(threw, content) ==
    IF threw THEN {Len(content)}
    ELSE {0, FastAvailableHalves, FastAvailableHalves + 2}

\* utilizationRatio < 0.7
UnderFull(halves) == halves * 10 < 7 * FastAvailableHalves

\* The page of the words startIdx .. startIdx + n - 1 (0-based).
FastPageOf(t, wm, startIdx, n, pn) ==
    LET firstWord == wm[startIdx + 1]
        lastWord  == wm[startIdx + n]
    IN  [content |-> Substring(t, firstWord.index, lastWord.index + lastWord.len),
         wordCount |-> n,
         startOffset |-> firstWord.index,
         endOffset |-> lastWord.index + lastWord.len,
         pageNumber |-> pn]

\* parseDocument, lines 31-47.
FastStart ==
    /\ algo = "fast" /\ pc = "start"
    /\ IF IsBlank(text)
       THEN /\ pc' = "done"
            /\ UNCHANGED wordMatches
       ELSE /\ wordMatches' = MatchAllWords(text)
            /\ pc' = IF Len(wordMatches') = 0 THEN "done" ELSE "page"
    /\ UNCHANGED <<renderVars, stackVars, scratchVars, colorVars, stripVars, viewVars, inputVars, fastVars, measurerVars, currentWordIndex,
                   pageNumber, pages, adaptiveVars>>

\* parseDocument, lines 52-58, and fitContent, lines 125-127: the loop test,
\* the first word of the page, the first word count to try.
FastPage ==
    /\ algo = "fast" /\ pc = "page"
    /\ LET idx == FindWordIndex(wordMatches, currentOffset)
       IN  IF ~(currentOffset < Len(text)) \/ idx = -1
           THEN /\ pc' = "done"
                /\ UNCHANGED <<startWordIndex, fitWordCount, attempts>>
           ELSE /\ pc' = "fit"
                /\ startWordIndex' = idx
                /\ fitWordCount' = estimatedWords
                /\ attempts' = 0
    /\ measureLog' = <<>>
    /\ UNCHANGED <<renderVars, stackVars, scratchVars, colorVars, stripVars, viewVars, inputVars, measurerVars, wordMatches, currentWordIndex,
                   pageNumber, pages, currentOffset, minWords, maxWords, bestFit, iterations>>

\* parseDocument, lines 71-85: the page is pushed, the offset moves to its
\* end, the safety check.
FastPush(page) ==
    /\ pages' = Append(pages, page)
    /\ currentOffset' = page.endOffset
    /\ pageNumber' = pageNumber + 1
    /\ pc' = IF pageNumber' > MAX_PAGES THEN "done" ELSE "page"

\* fitContent, lines 129-161, with measureContentHeight: one attempt.
FastFit ==
    /\ algo = "fast" /\ pc = "fit" /\ attempts < MAX_ATTEMPTS
    /\ LET endWordIndex == Min(startWordIndex + fitWordCount, Len(wordMatches))
           actualWordCount == endWordIndex - startWordIndex
       IN  IF endWordIndex <= startWordIndex
           THEN /\ pc' = "done"
                /\ UNCHANGED <<pages, currentOffset, pageNumber, fastVars, measurerVars,
                               measureLog>>
           ELSE LET page == FastPageOf(text, wordMatches, startWordIndex, actualWordCount,
                                       pageNumber)
                IN  \E threw \in RenderThrows : \E height \in FastHeights(threw, page.content) :
                      /\ renderFailures' = FailuresAfter(threw)
                      /\ measureLog' = Append(measureLog,
                             [kind |-> "fit", wordCount |-> actualWordCount, threw |-> threw,
                              height |-> height, length |-> Len(page.content)])
                      /\ IF height = Uncaught
                         THEN /\ pc' = "threw"
                              /\ UNCHANGED <<pages, currentOffset, pageNumber, fastVars>>
                         ELSE IF height <= FastAvailableHalves
                         THEN IF UnderFull(height) /\ attempts < MAX_ATTEMPTS - 1
                              THEN /\ fitWordCount' = GrowWords(fitWordCount)
                                   /\ attempts' = attempts + 1
                                   /\ UNCHANGED <<pc, pages, currentOffset, pageNumber>>
                              ELSE /\ FastPush(page)
                                   /\ UNCHANGED fastVars
                         ELSE /\ fitWordCount' = ShrinkWords(fitWordCount)
                              /\ attempts' = attempts + 1
                              /\ UNCHANGED <<pc, pages, currentOffset, pageNumber>>
    /\ UNCHANGED <<renderVars, stackVars, scratchVars, colorVars, stripVars, viewVars, inputVars, wordMatches, currentWordIndex,
                   startWordIndex, minWords, maxWords, bestFit, iterations>>

\* fitContent, lines 163-175: after maxAttempts, the minimum viable page.
FastMinimum ==
    /\ algo = "fast" /\ pc = "fit" /\ ~(attempts < MAX_ATTEMPTS)
    /\ LET minWordCount == Min(FAST_MIN_WORDS, Len(wordMatches) - startWordIndex)
       IN  FastPush(FastPageOf(text, wordMatches, startWordIndex, minWordCount, pageNumber))
    /\ UNCHANGED <<renderVars, stackVars, scratchVars, colorVars, stripVars, viewVars, inputVars, fastVars, measurerVars, wordMatches,
                   currentWordIndex, startWordIndex, minWords, maxWords, bestFit, iterations,
                   measureLog>>

(***************************************************************************)
(* FastPaginator on the document of wordTotal words "a", one space after   *)
(* each, under a renderer that throws at every call: the heights are the   *)
(* halves of the content lengths.  The pages are kept as runs.             *)
(***************************************************************************)

WORD_STRIDE == 2

\* text.substring(startOffset, endOffset) for a page of n words.
WordsContent(n) == SubSeq(Rep(<<"a", " ">>, n), 1, WORD_STRIDE * n - 1)

\* parseDocument, lines 31-47.
FastWordsStart ==
    /\ algo = "fast-words" /\ pc = "start"
    /\ pc' = IF wordTotal = 0 THEN "done" ELSE "page"
    /\ UNCHANGED <<renderVars, stackVars, scratchVars, colorVars, stripVars, viewVars, inputVars, fastVars, measurerVars, wordMatches,
                   currentWordIndex, pageNumber, pages, adaptiveVars>>

\* parseDocument, lines 52-58, and fitContent, lines 125-127.  The word k
\* (0-based) stands at offset WORD_STRIDE * k; the first word at or after
\* currentOffset is the word after the last one of the pages.
FastWordsPage ==
    /\ algo = "fast-words" /\ pc = "page"
    /\ LET idx == IF currentOffset = 0 THEN 0 ELSE (currentOffset + 1) \div WORD_STRIDE
       IN  IF ~(currentOffset < WORD_STRIDE * wordTotal) \/ idx >= wordTotal
           THEN /\ pc' = "done"
                /\ UNCHANGED <<startWordIndex, fitWordCount, attempts>>
           ELSE /\ pc' = "fit"
                /\ startWordIndex' = idx
                /\ fitWordCount' = estimatedWords
                /\ attempts' = 0
    /\ measureLog' = <<>>
    /\ UNCHANGED <<renderVars, stackVars, scratchVars, colorVars, stripVars, viewVars, inputVars, measurerVars, wordMatches, currentWordIndex,
                   pageNumber, pages, currentOffset, minWords, maxWords, bestFit, iterations>>

\* parseDocument, lines 71-85, on runs of pages.
FastWordsPush(n) ==
    /\ pages' = PushRun(pages, [wordCount |-> n])
    /\ currentOffset' = WORD_STRIDE * (startWordIndex + n) - 1
    /\ pageNumber' = pageNumber + 1
    /\ pc' = IF pageNumber' > MAX_PAGES THEN "done" ELSE "page"

\* fitContent, lines 129-161, with measureContentHeight: one attempt.
FastWordsFit ==
    /\ algo = "fast-words" /\ pc = "fit" /\ attempts < MAX_ATTEMPTS
    /\ LET endWordIndex == Min(startWordIndex + fitWordCount, wordTotal)
           actualWordCount == endWordIndex - startWordIndex
       IN  IF endWordIndex <= startWordIndex
           THEN /\ pc' = "done"
                /\ UNCHANGED <<pages, currentOffset, pageNumber, fastVars, measurerVars,
                               measureLog>>
           ELSE \E height \in FastHeights(TRUE, WordsContent(actualWordCount)) :
                   /\ renderFailures' = 1
                   /\ measureLog' = Append(measureLog,
                          [kind |-> "fit", wordCount |-> actualWordCount, threw |-> TRUE,
                           height |-> height, length |-> WORD_STRIDE * actualWordCount - 1])
                   /\ IF height = Uncaught
                      THEN /\ pc' = "threw"
                           /\ UNCHANGED <<pages, currentOffset, pageNumber, fastVars>>
                      ELSE IF height <= FastAvailableHalves
                      THEN IF UnderFull(height) /\ attempts < MAX_ATTEMPTS - 1
                           THEN /\ fitWordCount' = GrowWords(fitWordCount)
                                /\ attempts' = attempts + 1
                                /\ UNCHANGED <<pc, pages, currentOffset, pageNumber>>
                           ELSE /\ FastWordsPush(actualWordCount)
                                /\ UNCHANGED fastVars
                      ELSE /\ fitWordCount' = ShrinkWords(fitWordCount)
                           /\ attempts' = attempts + 1
                           /\ UNCHANGED <<pc, pages, currentOffset, pageNumber>>
    /\ UNCHANGED <<renderVars, stackVars, scratchVars, colorVars, stripVars, viewVars, inputVars, wordMatches, currentWordIndex,
                   startWordIndex, minWords, maxWords, bestFit, iterations>>

\* fitContent, lines 163-175: after maxAttempts, the minimum viable page.
FastWordsMinimum ==
    /\ algo = "fast-words" /\ pc = "fit" /\ ~(attempts < MAX_ATTEMPTS)
    /\ FastWordsPush(Min(FAST_MIN_WORDS, wordTotal - startWordIndex))
    /\ UNCHANGED <<renderVars, stackVars, scratchVars, colorVars, stripVars, viewVars, inputVars, fastVars, measurerVars, wordMatches,
                   currentWordIndex, startWordIndex, minWords, maxWords, bestFit, iterations,
                   measureLog>>

(***************************************************************************)
(* The documents of the model                                              *)
(***************************************************************************)

\* Bounds of the model.
MaxSmallLen == 4       \* the longest document enumerated character by character
MaxWordsPerPage == 3   \* the largest wordsPerPage handed to parseDocumentIntoPages
MaxBlocks == 2         \* a long document ends with up to MaxBlocks half pages of words
MaxDelta == 1          \* word counts run up to MaxDelta either side of a full page
MaxSpecials == 5       \* images (or heading lines) placed inside a long document
MaxExtraWords == 12    \* under any oracle the adaptive paginator gets up to MIN_WORDS + MaxExtraWords words
MaxCapSteps == 11      \* the capacities of the capped oracles: 0, MIN_WORDS, ..., MaxCapSteps * MIN_WORDS
SmallMaxIterations == 2 \* an iteration cap small enough to end the binary search early

\* Every document of at most n characters over the alphabet A.
StringsUpTo(A, n) == UNION {[1..k -> A] : k \in 0..n}

SmallAlphabet == {"a", " ", "\n"}
SmallDocs == StringsUpTo(SmallAlphabet, MaxSmallLen)

\* The repeated unit of a long document: a word and the whitespace around it
\* (the last unit holds no word: a whitespace-only document).
Units == {<<"a", " ">>, <<"a", "b", "\n">>, <<" ", "a">>, <<" ">>}

\* What a long document holds between its two runs of words: an image link of
\* one word, an image link whose alt text holds a space, a heading line.
Specials == {<<"!", "[", "]", "(", "u", ")", " ">>,
             <<"!", "[", "a", " ", "b", "]", "(", "u", ")", "\n">>,
             <<"\n", "#", " ", "a", " ", "b", "\n">>}

HalfBase == BASE_WORDS \div 2

\* The number of words before the specials: none, a few, half a page, and a
\* full page give or take MaxDelta.
WordCountChoices ==
    {0, MaxDelta, HalfBase} \cup {BASE_WORDS + d : d \in (0 - MaxDelta)..MaxDelta}

\* The number of specials: none, one, and as many as bring the page size to
\* its floor.
SpecialCounts == {0, 1, MaxSpecials - 1, MaxSpecials}

\* The number of words after the specials: none, a few, or several pages.
TailChoices == {0, MaxDelta, MaxBlocks * HalfBase}

LongDocs ==
    {Rep(u, n1) \o Rep(sp, k) \o Rep(u, n2) :
        u \in Units, n1 \in WordCountChoices, n2 \in TailChoices,
        sp \in Specials, k \in SpecialCounts}

(***************************************************************************)
(* miniMapRenderer.ts: tokenizeLines and extractTextAndImages              *)
(***************************************************************************)

\* text.replace(/\r\n/g, "\n")
RECURSIVE ReplaceCRLF(_)
ReplaceCRLF(t) ==
    IF t = <<>> THEN <<>>
    ELSE IF Len(t) >= 2 /\ t[1] = "\r" /\ t[2] = "\n"
         THEN <<"\n">> \o ReplaceCRLF(SubSeq(t, 3, Len(t)))
         ELSE <<t[1]>> \o ReplaceCRLF(SubSeq(t, 2, Len(t)))

\* t.split(/\n+/): the pieces between the runs of "\n", the empty piece
\* before a leading and after a trailing run included.
RECURSIVE SplitLines(_)
SplitLines(t) ==
    LET i == FirstOf(t, {"\n"}, 0, Len(t) - 1)
    IN  IF i = -1 THEN <<t>>
        ELSE LET j == FirstNotOf(t, {"\n"}, i, Len(t) - 1)
             IN  <<SubSeq(t, 1, i)>>
                    \o SplitLines(IF j = -1 THEN <<>> ELSE SubSeq(t, j + 1, Len(t)))

\* tokenizeLines, lines 534-540: the trimmed lines that are not empty and do
\* not start with "#".
RECURSIVE KeepLines(_)
KeepLines(ls) ==
    IF ls = <<>> THEN <<>>
    ELSE LET line == Trim(ls[1])
         IN  (IF line # <<>> /\ line[1] # "#" THEN <<line>> ELSE <<>>)
                \o KeepLines(SubSeq(ls, 2, Len(ls)))

tokenizeLines(t) == KeepLines(SplitLines(ReplaceCRLF(t)))

\* The end (exclusive) of the match of !\[([^\]]*)\]\(([^)]+)\) that starts
\* at i, or -1: the alt text runs to the first "]", the link is the non-empty
\* run up to the first ")".
MarkdownImageEnd(t, i) ==
    IF ~(i + 1 < Len(t) /\ CharAt(t, i) = "!" /\ CharAt(t, i + 1) = "[") THEN -1
    ELSE LET close == FirstOf(t, {"]"}, i + 2, Len(t) - 1)
         IN  IF close = -1 \/ close + 1 >= Len(t) \/ CharAt(t, close + 1) # "(" THEN -1
             ELSE LET paren == FirstOf(t, {")"}, close + 2, Len(t) - 1)
                  IN  IF paren = -1 \/ paren = close + 2 THEN -1 ELSE paren + 1

\* The same for !\[\[([^|\]]+)(?:\|([^\]]*))?\]\]: the target is the
\* non-empty run up to the first "|" or "]", the alias after a "|" runs to
\* the first "]".
WikiImageEnd(t, i) ==
    IF ~(i + 2 < Len(t) /\ CharAt(t, i) = "!" /\ CharAt(t, i + 1) = "["
                        /\ CharAt(t, i + 2) = "[") THEN -1
    ELSE LET stop  == FirstOf(t, {"|", "]"}, i + 3, Len(t) - 1)
             close == IF stop # -1 /\ CharAt(t, stop) = "|"
                      THEN FirstOf(t, {"]"}, stop + 1, Len(t) - 1)
                      ELSE stop
         IN  IF stop = -1 \/ stop = i + 3 \/ close = -1 THEN -1
             ELSE IF close + 1 < Len(t) /\ CharAt(t, close + 1) = "]" THEN close + 2
             ELSE -1

\* The match of imageRegex that starts at i: the first alternative is tried
\* first.
ImageRegexEnd(t, i) ==
    IF MarkdownImageEnd(t, i) # -1 THEN MarkdownImageEnd(t, i) ELSE WikiImageEnd(t, i)

\* imageRegex.exec(content) with lastIndex = from: the offset of the
\* leftmost match at or after from, or -1.
RECURSIVE NextImage(_, _)
NextImage(t, from) ==
    LET i == FirstOf(t, {"!"}, from, Len(t) - 1)
    IN  IF i = -1 THEN -1
        ELSE IF ImageRegexEnd(t, i) # -1 THEN i
        ELSE NextImage(t, i + 1)

\* A faulty pushTextLines: every text fragment is stamped with the start of
\* the segment instead of the start of its own run of text.  C18 survives it
\* only if no image precedes a text.
pushTextLinesAtSegment(t, startOffset, segmentStart) ==
    IF Trim(t) = <<>> THEN <<>>
    ELSE LET lines == tokenizeLines(t)
         IN  [k \in 1..Len(lines) |->
                 [type |-> "text", text |-> lines[k], startOffset |-> segmentStart]]

\* pushTextLines, lines 474-482: nothing for a blank text, else one fragment
\* per line, each with the start of the whole text.
pushTextLines(t, startOffset, segmentStart) ==
    IF Trim(t) = <<>> THEN <<>>
    ELSE LET lines == tokenizeLines(t)
         IN  [k \in 1..Len(lines) |->
                 [type |-> "text", text |-> lines[k], startOffset |-> startOffset]]

\* extractTextAndImages, lines 484-515, from lastIndex on.
RECURSIVE ExtractFrom(_, _, _)
ExtractFrom(content, segmentStart, lastIndex) ==
    LET index == NextImage(content, lastIndex)
    IN  IF index = -1
        THEN IF lastIndex < Len(content)
             THEN pushTextLines(Substring(content, lastIndex, Len(content)),
                                segmentStart + lastIndex, segmentStart)
             ELSE <<>>
        ELSE (IF index > lastIndex
              THEN pushTextLines(Substring(content, lastIndex, index),
                                 segmentStart + lastIndex, segmentStart)
              ELSE <<>>)
                \o <<[type |-> "image", startOffset |-> segmentStart + index]>>
                \o ExtractFrom(content, segmentStart, ImageRegexEnd(content, index))

extractTextAndImages(content, segmentStart) == ExtractFrom(content, segmentStart, 0)

(***************************************************************************)
(* part_001 (textExport): stripFlagsAndComments                            *)
(***************************************************************************)

\* The least offset at or after from where two characters c stand, or -1.
RECURSIVE PairFrom(_, _, _)
PairFrom(t, c, from) ==
    LET i == IndexOf(t, c, from)
    IN  IF i = -1 THEN -1
        ELSE IF IsPairAt(t, i, c) THEN i
        ELSE PairFrom(t, c, i + 1)

\* markdown.replace(/%%[\s\S]*?%%/g, "") from offset pos on: a match starts
\* at the leftmost "%%" and, lazy, ends with the first "%%" after it.
RECURSIVE ReplaceBlockComments(_, _)
ReplaceBlockComments(t, pos) ==
    LET i == PairFrom(t, "%", pos)
        j == IF i = -1 THEN -1 ELSE PairFrom(t, "%", i + 2)
    IN  IF j = -1 THEN Substring(t, pos, Len(t))
        ELSE Substring(t, pos, i) \o ReplaceBlockComments(t, j + 2)

MIN_INLINE_REST == 0

\* The end (exclusive) of the match of INLINE_FLAG_REGEX,
\* /==[A-Za-z][A-Za-z0-9_-]{0,24}:\s*[^=]+==/, that starts at i, or -1.
InlineFlagEnd(t, i) ==
    IF ~(i + 2 < Len(t) /\ IsPairAt(t, i, "=") /\ CharAt(t, i + 2) \in Letters)
    THEN -1
    ELSE LET runEnd == OrEnd(t, FirstNotOf(t, TypeChars, i + 3, Len(t) - 1))
             rest   == runEnd - (i + 3)
             q      == runEnd + 1
             e      == IndexOf(t, "=", q)
         IN  IF /\ rest >= MIN_INLINE_REST /\ rest <= MAX_TYPE_REST
                /\ runEnd < Len(t) /\ CharAt(t, runEnd) = ":"
                /\ e > q /\ IsPairAt(t, e, "=")
             THEN e + 2
             ELSE -1

\* result.replace(INLINE_FLAG_REGEX, "") from offset pos on: one pass, left
\* to right; what a removal brings together is not looked at again.
RECURSIVE ReplaceInlineFlags(_, _)
ReplaceInlineFlags(t, pos) ==
    LET i == PairFrom(t, "=", pos)
    IN  IF i = -1 THEN Substring(t, pos, Len(t))
        ELSE IF InlineFlagEnd(t, i) = -1
             THEN Substring(t, pos, i + 1) \o ReplaceInlineFlags(t, i + 1)
             ELSE Substring(t, pos, i) \o ReplaceInlineFlags(t, InlineFlagEnd(t, i))

\* markdown.split(/\r?\n/)
RECURSIVE SplitAtLineBreaks(_)
SplitAtLineBreaks(t) ==
    LET i == IndexOf(t, "\n", 0)
    IN  IF i = -1 THEN <<t>>
        ELSE <<Substring(t, 0, IF i > 0 /\ CharAt(t, i - 1) = "\r" THEN i - 1 ELSE i)>>
                \o SplitAtLineBreaks(Substring(t, i + 1, Len(t)))

\* /^\s*>/.test(line)
IsQuoteLine(line) ==
    LET a == WsRunEnd(line, 0)
    IN  a < Len(line) /\ CharAt(line, a) = ">"

\* /^\s*>\s*\[!/.test(line)
IsCalloutStart(line) ==
    /\ IsQuoteLine(line)
    /\ LET b == WsRunEnd(line, WsRunEnd(line, 0) + 1)
       IN  b + 1 < Len(line) /\ CharAt(line, b) = "[" /\ CharAt(line, b + 1) = "!"

\* The index after the quote lines that follow index - 1, lines 481-483.
RECURSIVE QuoteRunEnd(_, _)
QuoteRunEnd(lines, index) ==
    IF index < Len(lines) /\ IsQuoteLine(lines[index + 1])
    THEN QuoteRunEnd(lines, index + 1) ELSE index

\* removeCalloutBlocks, lines 477-492: the lines kept from index on.
RECURSIVE KeptLines(_, _)
KeptLines(lines, index) ==
    IF index >= Len(lines) THEN <<>>
    ELSE IF IsCalloutStart(lines[index + 1])
         THEN LET after == QuoteRunEnd(lines, index + 1)
              IN  KeptLines(lines, IF after < Len(lines) /\ Trim(lines[after + 1]) = <<>>
                                   THEN after + 1 ELSE after)
         ELSE <<lines[index + 1]>> \o KeptLines(lines, index + 1)

\* result.join("\n")
RECURSIVE JoinLines(_)
JoinLines(lines) ==
    IF lines = <<>> THEN <<>>
    ELSE IF Len(lines) = 1 THEN lines[1]
    ELSE lines[1] \o <<"\n">> \o JoinLines(SubSeq(lines, 2, Len(lines)))

removeCalloutBlocks(markdown) == JoinLines(KeptLines(SplitAtLineBreaks(markdown), 0))

Blanks == {" ", "\t"}

\* markdown.replace(/[ \t]+\n/g, "\n") from offset pos on.
RECURSIVE DropBlanksBeforeBreak(_, _)
DropBlanksBeforeBreak(t, pos) ==
    IF pos >= Len(t) THEN <<>>
    ELSE IF CharAt(t, pos) \notin Blanks
         THEN <<CharAt(t, pos)>> \o DropBlanksBeforeBreak(t, pos + 1)
         ELSE LET runEnd == OrEnd(t, FirstNotOf(t, Blanks, pos, Len(t) - 1))
              IN  IF runEnd < Len(t) /\ CharAt(t, runEnd) = "\n"
                  THEN DropBlanksBeforeBreak(t, runEnd)
                  ELSE Substring(t, pos, runEnd) \o DropBlanksBeforeBreak(t, runEnd)

\* t.replace(/C{least,}/g, replacement) for a character class C, from offset
\* pos on: a run of at least least characters of C becomes the replacement.
RECURSIVE ReplaceRuns(_, _, _, _, _)
ReplaceRuns(t, C, least, replacement, pos) ==
    IF pos >= Len(t) THEN <<>>
    ELSE IF CharAt(t, pos) \notin C
         THEN <<CharAt(t, pos)>> \o ReplaceRuns(t, C, least, replacement, pos + 1)
         ELSE LET runEnd == OrEnd(t, FirstNotOf(t, C, pos, Len(t) - 1))
              IN  (IF runEnd - pos >= least THEN replacement ELSE Substring(t, pos, runEnd))
                     \o ReplaceRuns(t, C, least, replacement, runEnd)

\* collapseWhitespace, lines 497-502.
collapseWhitespace(markdown) ==
    ReplaceRuns(ReplaceRuns(DropBlanksBeforeBreak(markdown, 0),
                            {"\n"}, 3, <<"\n", "\n">>, 0),
                Blanks, 2, <<" ">>, 0)

\* stripFlagsAndComments, lines 504-511.
stripFlagsAndComments(markdown) ==
    IF markdown = <<>> THEN <<>>
    ELSE Trim(collapseWhitespace(removeCalloutBlocks(
             ReplaceInlineFlags(ReplaceBlockComments(markdown, 0), 0))))

(***************************************************************************)
(* buildMinimapSections, then MiniMapRenderer.tokenizeContent on its page  *)
(***************************************************************************)

\* buildMinimapSections(text): no page for a blank text, else one page that
\* holds the whole text with its headings and flags.
buildMinimapSections(t) ==
    IF IsBlank(t) THEN <<>>
    ELSE <<[content |-> t,
            wordCount |-> Len(MatchAllWords(t)),
            startOffset |-> 0,
            endOffset |-> Len(t),
            pageNumber |-> 0,
            headings |-> parseHeadingsWithCallouts(t, 0),
            flags |-> parseFlags(t, 0)]>>

BuildSections ==
    /\ algo = "minimap" /\ pc = "start"
    /\ pages' = buildMinimapSections(text)
    /\ pc' = IF pages' = <<>> THEN "done" ELSE "tokenize"
    /\ UNCHANGED <<scratchVars, colorVars, stripVars, viewVars, inputVars, fastVars, measurerVars, wordMatches, currentWordIndex, pageNumber, adaptiveVars,
                   renderVars, stackVars>>

\* The text handed to extractTextAndImages when the item starts after the
\* cursor, lines 431-434.
GapBefore(relativeStart) ==
    IF relativeStart > cursor
    THEN <<[kind |-> "text", from |-> cursor, to |-> relativeStart]>>
    ELSE <<>>

\* pushText(beforeItem, base + cursor), lines 431-434.
TextBefore(page, relativeStart) ==
    IF relativeStart > cursor
    THEN extractTextAndImages(Substring(page.content, cursor, relativeStart),
                              page.startOffset + cursor)
    ELSE <<>>

\* The fragment pushed for a heading or a flag, lines 436-445: it carries the
\* heading or the flag, whose startOffset is the item's offset.
ItemFragment(item) ==
    IF item.type = "heading"
    THEN [type |-> "heading", heading |-> [startOffset |-> item.offset]]
    ELSE [type |-> "flag", flag |-> [startOffset |-> item.offset]]

\* Where the cursor stands after a flag at relativeStart, lines 446-452.
CursorAfterFlag(content, relativeStart) ==
    LET length == SkipMatchLength(content, relativeStart)
    IN  IF length # -1 THEN relativeStart + length ELSE relativeStart

\* tokenizeContent, lines 429-454: one iteration of the loop over specialItems.
TokenizeItem ==
    /\ algo = "minimap" /\ pc = "tokenize"
    /\ itemIndex < Len(specialItems(pages[1]))
    /\ LET page          == pages[1]
           item          == specialItems(page)[itemIndex + 1]
           relativeStart == Max(0, item.offset - page.startOffset)
           next          == IF item.type = "heading"
                            THEN findHeadingLineEnd(page.content, relativeStart)
                            ELSE CursorAfterFlag(page.content, relativeStart)
       IN  /\ cursor' = next
           /\ consumed' = consumed \o GapBefore(relativeStart)
                             \o <<[kind |-> item.type, from |-> relativeStart, to |-> next]>>
           /\ fragments' = fragments \o TextBefore(page, relativeStart)
                               \o <<ItemFragment(item)>>
    /\ itemIndex' = itemIndex + 1
    /\ UNCHANGED <<scratchVars, colorVars, stripVars, viewVars, inputVars, fastVars, measurerVars, pc, wordMatches, currentWordIndex, pageNumber, pages,
                   adaptiveVars, stackVars>>

\* tokenizeContent, lines 456-461: the tail after the last item, and the return.
TokenizeTail ==
    /\ algo = "minimap" /\ pc = "tokenize"
    /\ itemIndex = Len(specialItems(pages[1]))
    /\ consumed' = IF cursor < Len(pages[1].content)
                   THEN Append(consumed, [kind |-> "text", from |-> cursor,
                                          to |-> Len(pages[1].content)])
                   ELSE consumed
    /\ fragments' = IF cursor < Len(pages[1].content)
                    THEN fragments \o extractTextAndImages(
                                         Substring(pages[1].content, cursor,
                                                   Len(pages[1].content)),
                                         pages[1].startOffset + cursor)
                    ELSE fragments
    /\ pc' = "done"
    /\ UNCHANGED <<scratchVars, colorVars, stripVars, viewVars, inputVars, fastVars, measurerVars, wordMatches, currentWordIndex, pageNumber, pages,
                   adaptiveVars, cursor, itemIndex, stackVars>>

(***************************************************************************)
(* documentParser.ts: computeHeadingCalloutStacks(pages)                   *)
(***************************************************************************)

\* The headings the two loops of lines 286-289 visit, in order: a page
\* without headings is skipped.
RECURSIVE HeadingsInOrder(_)
HeadingsInOrder(ps) ==
    IF ps = <<>> THEN <<>>
    ELSE HeadingsInOrder(SubSeq(ps, 1, Len(ps) - 1))
            \o (IF "headings" \in DOMAIN ps[Len(ps)] THEN ps[Len(ps)].headings ELSE <<>>)

\* A faulty filter test: a callout of the heading's own level stays on the
\* stack.  C5 must not survive it.
StaysOnStackAtSameLevel(c, heading) == c.level <= heading.level

\* The test of the filter, line 291.
StaysOnStack(c, heading) == c.level < heading.level

\* calloutStack.filter((c) => c.level < heading.level)
RECURSIVE FilterStack(_, _)
FilterStack(stack, heading) ==
    IF stack = <<>> THEN <<>>
    ELSE FilterStack(SubSeq(stack, 1, Len(stack) - 1), heading)
            \o (IF StaysOnStack(stack[Len(stack)], heading)
                THEN <<stack[Len(stack)]>> ELSE <<>>)

\* Map.prototype.set
MapSet(map, key, value) ==
    [k \in DOMAIN map \cup {key} |-> IF k = key THEN value ELSE map[k]]

\* if (heading.callout): a heading of collectHeadings has no such property.
HasCallout(heading) == "callout" \in DOMAIN heading /\ heading.callout # NoCallout

\* Lines 291-298: the stack after the heading.
PushedStack(stack, heading) ==
    LET newStack == FilterStack(stack, heading)
    IN  IF HasCallout(heading)
        THEN Append(newStack, [level |-> heading.level, color |-> heading.callout.color])
        ELSE newStack

\* calloutStack.map((c) => ({ color: c.color }))
StoredStack(stack) == [k \in 1..Len(stack) |-> [color |-> stack[k].color]]

\* computeHeadingCalloutStacks, lines 289-308: one iteration of the inner loop.
StackHeading ==
    /\ algo = "stacks" /\ pc = "start"
    /\ stackPos < Len(HeadingsInOrder(pages))
    /\ LET heading  == HeadingsInOrder(pages)[stackPos + 1]
           pushed   == PushedStack(calloutStack, heading)
       IN  /\ calloutStack' = pushed
           /\ stackMap' = MapSet(stackMap, heading.startOffset, StoredStack(pushed))
    /\ stackPos' = stackPos + 1
    /\ UNCHANGED <<scratchVars, colorVars, stripVars, viewVars, inputVars, fastVars, measurerVars, pc, wordMatches, currentWordIndex, pageNumber, pages,
                   adaptiveVars, renderVars, counters, headingNumberMap>>

\* computeHeadingCalloutStacks, line 311: return stackMap.
StackReturn ==
    /\ algo = "stacks" /\ pc = "start"
    /\ stackPos = Len(HeadingsInOrder(pages))
    /\ pc' = "done"
    /\ UNCHANGED <<scratchVars, colorVars, stripVars, viewVars, inputVars, fastVars, measurerVars, wordMatches, currentWordIndex, pageNumber, pages,
                   adaptiveVars, renderVars, stackVars>>

\* computeHeadingCalloutStacks(pages) as a whole: the map it returns.
RECURSIVE StacksOver(_, _, _, _)
StacksOver(hs, k, stack, map) ==
    IF k > Len(hs) THEN map
    ELSE LET pushed == PushedStack(stack, hs[k])
         IN  StacksOver(hs, k + 1, pushed,
                        MapSet(map, hs[k].startOffset, StoredStack(pushed)))

computeHeadingCalloutStacks(ps) == StacksOver(HeadingsInOrder(ps), 1, <<>>, <<>>)

(***************************************************************************)
(* miniMapRenderer.ts: computeHeadingNumbers                               *)
(***************************************************************************)

DECIMAL_BASE == 10

\* String(n) for a natural number n: its decimal digits.
RECURSIVE ToDecimal(_)
ToDecimal(n) ==
    LET digit == <<"0", "1", "2", "3", "4", "5", "6", "7", "8", "9">>[(n % DECIMAL_BASE) + 1]
    IN  IF n < DECIMAL_BASE THEN <<digit>> ELSE Append(ToDecimal(n \div DECIMAL_BASE), digit)

\* parts.join(".")
RECURSIVE Join(_)
Join(parts) ==
    IF parts = <<>> THEN <<>>
    ELSE IF Len(parts) = 1 THEN parts[1]
    ELSE Join(SubSeq(parts, 1, Len(parts) - 1)) \o <<".">> \o parts[Len(parts)]

\* A faulty reset: the counters below the heading's level are left as they
\* are.  C14 must not survive it.
CountersAfterNoReset(cs, index) ==
    [i \in 1..Len(cs) |-> IF i = index + 1 THEN cs[i] + 1 ELSE cs[i]]

\* Lines 629-632: the counter of the level goes up by one, the counters of
\* the deeper levels go back to 0 (index is 0-based).
CountersAfter(cs, index) ==
    [i \in 1..Len(cs) |-> IF i = index + 1 THEN cs[i] + 1
                          ELSE IF i > index + 1 THEN 0 ELSE cs[i]]

\* Lines 634-638: the counters down to the level that are not 0, as strings.
RECURSIVE NumberParts(_, _)
NumberParts(cs, index) ==
    IF index < 0 THEN <<>>
    ELSE NumberParts(cs, index - 1)
            \o (IF cs[index + 1] = 0 THEN <<>> ELSE <<ToDecimal(cs[index + 1])>>)

\* computeHeadingNumbers, lines 618-620: the map is cleared, the counters are 0.
NumberStart ==
    /\ algo = "numbers" /\ pc = "start"
    /\ headingNumberMap' = <<>>
    /\ counters' = [i \in 1..MAX_HEADING_LEVEL |-> 0]
    /\ stackPos' = 0
    /\ pc' = "loop"
    /\ UNCHANGED <<scratchVars, colorVars, stripVars, viewVars, inputVars, fastVars, measurerVars, wordMatches, currentWordIndex, pageNumber,
                   pages, adaptiveVars, renderVars, calloutStack, stackMap>>

\* computeHeadingNumbers, lines 625-641: one iteration of the inner loop.
NumberHeading ==
    /\ algo = "numbers" /\ pc = "loop"
    /\ stackPos < Len(HeadingsInOrder(pages))
    /\ LET heading == HeadingsInOrder(pages)[stackPos + 1]
           level   == Min(Max(heading.level, 1), MAX_HEADING_LEVEL)
           index   == level - 1
           after   == CountersAfter(counters, index)
       IN  /\ counters' = after
           /\ headingNumberMap' = MapSet(headingNumberMap, heading.startOffset,
                                         Join(NumberParts(after, index)))
    /\ stackPos' = stackPos + 1
    /\ UNCHANGED <<scratchVars, colorVars, stripVars, viewVars, inputVars, fastVars, measurerVars, pc, wordMatches, currentWordIndex,
                   pageNumber, pages, adaptiveVars, renderVars, calloutStack, stackMap>>

\* computeHeadingNumbers, line 643: the loops are over.
NumberReturn ==
    /\ algo = "numbers" /\ pc = "loop"
    /\ stackPos = Len(HeadingsInOrder(pages))
    /\ pc' = "done"
    /\ UNCHANGED <<scratchVars, colorVars, stripVars, viewVars, inputVars, fastVars, measurerVars, wordMatches, currentWordIndex, pageNumber,
                   pages, adaptiveVars, renderVars, stackVars>>

(***************************************************************************)
(* The pagination specification                                            *)
(***************************************************************************)

\* The documents handed to the adaptive paginator under any oracle: fewer
\* words than the minimum page, exactly as many, and enough for two pages.
AdaptiveWordCounts ==
    {0, 1, MIN_WORDS - 1, MIN_WORDS, MIN_WORDS + 1, MIN_WORDS + MaxExtraWords}

AdaptiveDocs == {Rep(u, n) : u \in Units, n \in AdaptiveWordCounts}

\* The documents handed to it under a capped oracle: about as many words as
\* the estimate, as twice the estimate, and more.
CappedWordCounts ==
    {MIN_ESTIMATE - 1, MIN_ESTIMATE + 1, 2 * MIN_ESTIMATE, 2 * MIN_ESTIMATE + MaxExtraWords,
     HalfBase + MaxExtraWords}

CappedDocs == {Rep(u, n) : u \in Units, n \in CappedWordCounts}

OracleCaps == {k * MIN_WORDS : k \in 0..MaxCapSteps}

\* The tokenizer and the stack computation before they run.
IdleRender == cursor = 0 /\ itemIndex = 0 /\ consumed = <<>> /\ fragments = <<>>
(***************************************************************************)
(* flags/flagColors.ts: setFlagColorMap and getFlagColor, with the maps    *)
(* the plugin hands to setFlagColorMap                                     *)
(***************************************************************************)

\* flagData.ts, lines 1-10.
FLAG_TYPES ==
    {<<"T", "O", "D", "O">>,
     <<"N", "O", "W">>,
     <<"D", "O", "N", "E">>,
     <<"W", "A", "I", "T", "I", "N", "G">>,
     <<"N", "O", "T", "E">>,
     <<"I", "M", "P", "O", "R", "T", "A", "N", "T">>,
     <<"C", "O", "M", "M", "E", "N", "T">>,
     <<"M", "I", "S", "S", "I", "N", "G">>}

NOTE == <<"N", "O", "T", "E">>

\* The map flagColors.ts starts with, lines 5-14.
InitialFlagColorMap ==
    (<<"T", "O", "D", "O">> :> "#ffd700")
       @@ (<<"N", "O", "W">> :> "#ff4444")
       @@ (<<"D", "O", "N", "E">> :> "#44ff44")
       @@ (<<"W", "A", "I", "T", "I", "N", "G">> :> "#ff9944")
       @@ (<<"N", "O", "T", "E">> :> "#4488ff")
       @@ (<<"I", "M", "P", "O", "R", "T", "A", "N", "T">> :> "#ff44ff")
       @@ (<<"C", "O", "M", "M", "E", "N", "T">> :> "#888888")
       @@ (<<"M", "I", "S", "S", "I", "N", "G">> :> "#ff4444")

\* settings.ts: DEFAULT_FLAG_COLORS.
DEFAULT_FLAG_COLORS ==
    (<<"T", "O", "D", "O">> :> "#ffd700")
       @@ (<<"C", "O", "M", "M", "E", "N", "T">> :> "#888888")
       @@ (<<"M", "I", "S", "S", "I", "N", "G">> :> "#ff4444")
       @@ (<<"R", "E", "W", "R", "I", "T", "E">> :> "#ff66aa")
       @@ (<<"R", "E", "S", "E", "A", "R", "C", "H">> :> "#66aaff")

\* What reading a property the object does not have gives.
Undefined == "undefined"

\* map[key] for an object used as a map.
PropertyOf(map, key) == IF key \in DOMAIN map THEN map[key] ELSE Undefined

\* String.prototype.toUpperCase
ToUpperCase(s) == [i \in 1..Len(s) |-> ToUpperChar(s[i])]

\* getFlagColor, lines 20-26, on the map flagColorMap holds.
getFlagColor(map, type) ==
    LET normalized == ToUpperCase(type)
    IN  IF normalized \in FLAG_TYPES THEN PropertyOf(map, normalized)
        ELSE PropertyOf(map, NOTE)

\* Object.assign({}, target, source)
Merge(target, source) ==
    [k \in DOMAIN target \cup DOMAIN source |->
        IF k \in DOMAIN source THEN source[k] ELSE target[k]]

\* The names the persisted settings may give a color to: built-in types and
\* a custom flag.
PersistedNames == {<<"N", "O", "W">>, NOTE, <<"T", "O", "D", "O">>, <<"I", "D", "E", "A">>}

Palette == {"#111111", "#222222"}

\* main.ts lines 125-131: the settings' flagColors are the defaults
\* overlaid with the persisted colors.
SettingsFlagColors ==
    {Merge(DEFAULT_FLAG_COLORS, persisted) :
        persisted \in UNION {[names -> Palette] : names \in SUBSET PersistedNames}}

\* The types getFlagColor is asked about: the built-in ones as written and
\* in lower case, a custom flag, an unknown type, the empty string.
AskedTypes ==
    FLAG_TYPES \cup {ToLowerCase(t) : t \in FLAG_TYPES}
        \cup {<<"R", "E", "W", "R", "I", "T", "E">>, <<"i", "d", "e", "a">>, <<>>}

NoType == <<"?">>

IdleColors == flagColorMap = InitialFlagColorMap /\ flagType = NoType /\ flagColor = Undefined


IdleStrip == result = <<>>

\* null, for a file; a renderer field holds <<>> for null, or the renderer.
Null == "null"
NullRenderer == <<>>

\* A view after construction, LongView.ts lines 28-39.
IdleView ==
    /\ currentMode = "minimap" /\ activeFile = Null /\ vault = <<>> /\ currentFile = Null
    /\ documentLength = 0 /\ minimapSections = <<>> /\ minimapRenderer = NullRenderer
    /\ summaryRenderer = NullRenderer /\ pagedCalloutStacks = <<>> /\ calls = <<>>

\* A paginator after construction: no scratch container was created.
IdleScratch ==
    /\ body = {} /\ measureContainer = 0 /\ isSetup = FALSE /\ events = 0
    /\ children = {} /\ unloaded = FALSE /\ created = 0 /\ measureEl = 0

IdleFast == fitWordCount = 0 /\ attempts = 0 /\ renderFailures = 0 /\ IdleScratch /\ IdleColors /\ IdleStrip /\ IdleView
NoRenderer == renderer = "ok" /\ pageHeight = 0
IdleStacks ==
    /\ calloutStack = <<>> /\ stackMap = <<>> /\ stackPos = 0
    /\ counters = <<>> /\ headingNumberMap = <<>>

InitPagination ==
    /\ pc = "start"
    /\ wordTotal = 0
    /\ IdleRender /\ IdleStacks /\ IdleFast /\ NoRenderer
    /\ wordMatches = <<>>
    /\ currentWordIndex = 0
    /\ pageNumber = 0
    /\ pages = <<>>
    /\ currentOffset = 0
    /\ startWordIndex = 0
    /\ minWords = 0
    /\ maxWords = 0
    /\ bestFit = NoFit
    /\ iterations = 0
    /\ measureLog = <<>>
    /\ \/ /\ algo = "simple"
          /\ text \in SmallDocs \cup LongDocs
          /\ wordsPerPage = 0
          /\ estimatedWords = 0
          /\ maxIterations = 0
          /\ oracleCap = AnyOracle
       \/ /\ algo = "legacy"
          /\ text \in SmallDocs
          /\ wordsPerPage \in 0..MaxWordsPerPage
          /\ estimatedWords = 0
          /\ maxIterations = 0
          /\ oracleCap = AnyOracle
       \/ /\ algo = "adaptive"
          /\ \/ text \in SmallDocs \cup AdaptiveDocs /\ oracleCap = AnyOracle
             \/ text \in CappedDocs /\ oracleCap \in OracleCaps
          /\ wordsPerPage = 0
          /\ estimatedWords = estimateStartingWordCount(0)
          /\ maxIterations \in {SmallMaxIterations, DEFAULT_MAX_ITERATIONS}

NextPagination ==
    \/ SimpleStart \/ SimplePage
    \/ LegacyStart \/ LegacyPage
    \/ AdaptiveStart \/ AdaptiveCreatePage \/ AdaptiveMeasureEstimate
    \/ AdaptiveSearchStep \/ AdaptiveFallback \/ AdaptiveEmit

SpecPagination == InitPagination /\ [][NextPagination]_vars

(***************************************************************************)
(* The fixed-word-count specification: paginateDocument on documents given *)
(* as text and on documents of image links given by their word count, the  *)
(* latter up to the page ceiling                                           *)
(***************************************************************************)

MaxImageWords == 3   \* the short documents of image links hold up to MaxImageWords links ...

\* ... or about one or two pages of the least size.
ImageWordCounts ==
    0..MaxImageWords \cup {MIN_WORDS_PER_PAGE - 1, MIN_WORDS_PER_PAGE + MaxImageWords,
                           2 * MIN_WORDS_PER_PAGE + 1}

\* The word counts of the documents given by their count: the same, about a
\* look-ahead (BASE_WORDS words), and one word more than MAX_PAGES + 1 pages
\* of the least size hold.
CountedTotals ==
    ImageWordCounts \cup {BASE_WORDS - 1, BASE_WORDS + MaxImageWords,
                          (MAX_PAGES + 1) * MIN_WORDS_PER_PAGE + 1}

InitSimple ==
    /\ pc = "start"
    /\ pages = <<>>
    /\ \/ /\ algo = "simple"
          /\ text \in SmallDocs \cup LongDocs \cup {ImageWordsText(n) : n \in ImageWordCounts}
          /\ wordTotal = 0
       \/ /\ algo = "simple-images"
          /\ text = <<>>
          /\ wordTotal \in CountedTotals
    /\ wordsPerPage = 0 /\ estimatedWords = 0 /\ maxIterations = 0 /\ oracleCap = AnyOracle
    /\ wordMatches = <<>> /\ currentWordIndex = 0 /\ pageNumber = 0
    /\ currentOffset = 0 /\ startWordIndex = 0 /\ minWords = 0 /\ maxWords = 0
    /\ bestFit = NoFit /\ iterations = 0 /\ measureLog = <<>>
    /\ IdleRender /\ IdleStacks /\ IdleFast /\ NoRenderer

NextSimple == SimpleStart \/ SimplePage \/ ImageWordsStart \/ ImageWordsPage

SpecSimple == InitSimple /\ [][NextSimple]_vars

(***************************************************************************)
(* The measuring specification: FastPaginator and AdaptivePaginator with a *)
(* renderer that throws at every call, or at any call                      *)
(***************************************************************************)

MaxFailWords == 2   \* under a renderer that throws at any call: up to MaxFailWords words more

\* The numbers of words of the documents handed to FastPaginator: none, one,
\* about the minimum viable page, about the estimate, more than the estimate
\* grown once.
FastWordCounts ==
    {0, 1, FAST_MIN_WORDS + 1, MIN_ESTIMATE - 1, MIN_ESTIMATE + 1,
     GrowWords(MIN_ESTIMATE) + MaxExtraWords}

\* options.pageHeight: a page of a few pixels, a page about as high as half
\* the characters of the estimate are many, a page three times that.
FastPageHeights == {PageHeight, MIN_ESTIMATE + PageHeight, 3 * MIN_ESTIMATE}

\* estimateWordsPerPage: the floor of 50 words, and a word count whose
\* products with 1.4 and 0.7 round down.
ROUNDING_ESTIMATE == 90
FastEstimates == {estimateStartingWordCount(0), ROUNDING_ESTIMATE}

InitMeasuring ==
    /\ pc = "start"
    /\ pages = <<>>
    /\ wordsPerPage = 0
    /\ wordMatches = <<>> /\ currentWordIndex = 0 /\ pageNumber = 0
    /\ currentOffset = 0 /\ startWordIndex = 0 /\ minWords = 0 /\ maxWords = 0
    /\ bestFit = NoFit /\ iterations = 0 /\ measureLog = <<>>
    /\ IdleRender /\ IdleStacks /\ IdleFast
    /\ \/ /\ algo = "fast" /\ wordTotal = 0
          /\ \/ /\ renderer = "throws"
                /\ \E u \in Units, n \in FastWordCounts : text = Rep(u, n)
             \/ /\ renderer = "any"
                /\ \E u \in Units, n \in 0..MaxFailWords \cup {MIN_ESTIMATE + MaxFailWords} :
                       text = Rep(u, n)
          /\ pageHeight \in FastPageHeights
          /\ estimatedWords \in FastEstimates
          /\ maxIterations = 0 /\ oracleCap = AnyOracle
       \/ /\ algo = "fast-words"
          /\ renderer = "throws" /\ text = <<>>
          /\ \/ /\ pageHeight = PageHeight
                /\ wordTotal \in {0, 1, FAST_MIN_WORDS + 1, MIN_ESTIMATE + MaxFailWords}
             \/ /\ pageHeight = MIN_ESTIMATE + PageHeight
                /\ wordTotal = (MAX_PAGES + 1) * MIN_ESTIMATE + 1
          /\ estimatedWords = estimateStartingWordCount(0)
          /\ maxIterations = 0 /\ oracleCap = AnyOracle
       \/ /\ algo = "adaptive" /\ wordTotal = 0
          /\ \/ /\ renderer = "throws"
                /\ text \in AdaptiveDocs
             \/ /\ renderer = "any"
                /\ \E u \in Units, n \in 0..MaxFailWords \cup {MIN_WORDS + MaxFailWords} :
                       text = Rep(u, n)
          /\ pageHeight = 0
          /\ estimatedWords = estimateStartingWordCount(0)
          /\ maxIterations \in {SmallMaxIterations, DEFAULT_MAX_ITERATIONS}
          /\ oracleCap = AnyOracle

NextMeasuring ==
    \/ FastStart \/ FastPage \/ FastFit \/ FastMinimum
    \/ FastWordsStart \/ FastWordsPage \/ FastWordsFit \/ FastWordsMinimum
    \/ AdaptiveStart \/ AdaptiveCreatePage \/ AdaptiveMeasureEstimate
    \/ AdaptiveSearchStep \/ AdaptiveFallback \/ AdaptiveEmit

SpecMeasuring == InitMeasuring /\ [][NextMeasuring]_vars

(***************************************************************************)
(* The minimap specification: buildMinimapSections and tokenizeContent     *)
(***************************************************************************)

MaxPieces == 3       \* a document built of lines holds up to MaxPieces of them
MaxTypeRest == 3     \* a short flag type holds up to 1 + MaxTypeRest characters
MaxMessageLen == 2   \* the longest flag message enumerated character by character

\* Documents over the characters the heading pattern tells apart.
HeadingAlphabet == SmallAlphabet \cup {"#"}
HeadingDocs == StringsUpTo(HeadingAlphabet, MaxSmallLen)

\* The lines a document is built of: headings, an empty and a whitespace-only
\* line, callouts with and without a title, a flag, a comment, a text line, a
\* lone "#", and a heading line left open for what follows.
Pieces ==
    {<<"#", " ", "a", "\n">>,
     <<"#", "#", " ", "b", "\n">>,
     <<"\n">>,
     <<" ", "\n">>,
     <<">", " ", "[", "!", "n", "o", "t", "e", "]", " ", "T", "\n">>,
     <<">", " ", "[", "!", "B", "u", "g", "]", "\n">>,
     <<"=", "=", "a", "b", ":", " ", "x", "=", "=", " ">>,
     <<"%", "%", "c", "%", "%", "\n">>,
     <<"x", "\n">>,
     <<"#">>,
     <<"#", " ", "a", " ">>}

RECURSIVE Concat(_)
Concat(ss) == IF ss = <<>> THEN <<>> ELSE Concat(SubSeq(ss, 1, Len(ss) - 1)) \o ss[Len(ss)]

\* Flag types: a letter, then a run of one more character: none, one, a few,
\* and up to the longest the pattern takes.
FlagTypes ==
    {<<f>> \o Rep(<<c>>, n) :
        f \in {"T", "q"}, c \in {"o", "7", "-", "_"},
        n \in {0, 1, MaxTypeRest, MAX_TYPE_REST - 1, MAX_TYPE_REST}}

FlagMessages == StringsUpTo({"x", " ", "|"}, MaxMessageLen) \ {<<>>}

TypedFlagText(T, m) == <<"=", "=">> \o T \o <<":", " ">> \o m \o <<"=", "=">>
CommentText(m) == <<"%", "%", " ">> \o m \o <<" ", "%", "%">>

FlagDocs == {TypedFlagText(T, m) : T \in FlagTypes, m \in FlagMessages}
               \cup {CommentText(m) : m \in FlagMessages}

\* Malformed markup: types that start with a digit (the first is the example
\* of the specification), a type one character longer than the pattern
\* takes, flags and comments without their closing delimiter.
MalformedFlags ==
    {<<"=", "=", "3", "x", ":", " ", "o", "o", "p", "s", "=", "=">>,
     TypedFlagText(<<"7">>, <<"x">>),
     TypedFlagText(<<"0", "T", "o">>, <<"x">>),
     TypedFlagText(<<"T">> \o Rep(<<"o">>, MAX_TYPE_REST + 1), <<"x">>),
     TypedFlagText(<<"q">> \o Rep(<<"-">>, MAX_TYPE_REST + MaxTypeRest), <<"x">>),
     <<"=", "=", "a", "b", ":", " ", "x">>,
     <<"=", "=", "a", "b", ":", " ", "x", "=">>,
     <<"=", "=", "a", "b", ":", " ", "x", "=", " ", "=">>,
     <<"=", "=", "a", "b", ":", " ", "x", " ", "%", "%">>,
     <<"%", "%", "c">>,
     <<"%", "%", " ", "c", " ", "%">>,
     <<"%", "%", "c", "%", " ", "%">>}

\* The same between a word before and a word or a line break after.
MalformedDocs ==
    {before \o f \o after :
        before \in {<<>>, <<"x", " ">>}, f \in MalformedFlags,
        after \in {<<>>, <<"\n">>, <<" ", "y">>}}

\* The lines a document with images and overlapping annotations is built
\* of: a heading line left open for what follows, a flag whose message holds
\* a comment, a comment that holds a flag, an image link with text after it,
\* an embedded image with an alias, a text line.
FragmentPieces ==
    {<<"#", " ", "a", " ">>,
     <<"=", "=", "a", "b", ":", " ", "%", "%", "c", "%", "%", "=", "=">>,
     <<"%", "%", "=", "=", "a", "b", ":", " ", "x", "=", "=", "%", "%">>,
     <<"!", "[", "a", "]", "(", "u", ")", " ", "x", "\n">>,
     <<"!", "[", "[", "t", "|", "b", "]", "]", "\n">>,
     <<"x", "\n">>}

\* The end-to-end example of the specification.
ExampleDoc ==
    <<"#", " ", "T", "i", "t", "l", "e", "\n", "\n", "B", "o", "d", "y", ".", "\n", "\n", ">", " ", "[", "!", "n", "o", "t", "e", "]", " ", "I", "n", "f", "o", "\n", "#", "#", " ", "S", "u", "b", "\n", "W", "o", "r", "k", " ", "=", "=", "T", "O", "D", "O", ":", " ", "f", "i", "x", "=", "=", ".">>


\* The paginators before they run.
IdlePagination ==
    /\ wordTotal = 0 /\ wordsPerPage = 0 /\ estimatedWords = 0 /\ maxIterations = 0 /\ oracleCap = AnyOracle
    /\ wordMatches = <<>> /\ currentWordIndex = 0 /\ pageNumber = 0
    /\ currentOffset = 0 /\ startWordIndex = 0 /\ minWords = 0 /\ maxWords = 0
    /\ bestFit = NoFit /\ iterations = 0 /\ measureLog = <<>>
    /\ IdleFast /\ NoRenderer

InitMinimap ==
    /\ algo = "minimap" /\ pc = "start"
    /\ \/ text \in HeadingDocs \cup FlagDocs \cup MalformedDocs \cup {ExampleDoc}
       \/ \E k \in 0..MaxPieces : \E ss \in [1..k -> Pieces] : text = Concat(ss)
       \/ \E k \in 0..MaxPieces : \E ss \in [1..k -> FragmentPieces] : text = Concat(ss)
    /\ pages = <<>>
    /\ IdlePagination /\ IdleRender /\ IdleStacks

NextMinimap == BuildSections \/ TokenizeItem \/ TokenizeTail

SpecMinimap == InitMinimap /\ [][NextMinimap]_vars

(***************************************************************************)
(* The stack specification: computeHeadingCalloutStacks                    *)
(***************************************************************************)

MaxHeadings == 3   \* the pages handed to computeHeadingCalloutStacks hold up to MaxHeadings headings

\* The callouts parsed from the lines under the headings.
CalloutsBelow ==
    {parseCallout(line, 0) :
        line \in {<<">", " ", "[", "!", "n", "o", "t", "e", "]">>,
                  <<">", " ", "[", "!", "b", "u", "g", "]", " ", "B">>,
                  <<">", " ", "[", "!", "t", "i", "p", "]">>}}

\* The k-th heading of a document whose headings stand one line apart, with
\* the callout c or without one.
HeadingAt(k, level, c) ==
    [level |-> level,
     text |-> <<"h">>,
     startOffset |-> (k - 1) * (MAX_HEADING_LEVEL + 3),
     callout |-> IF c = NoCallout THEN NoCallout
                 ELSE [c EXCEPT !.startOffset = (k - 1) * (MAX_HEADING_LEVEL + 3)]]

\* The levels of the headings: the two outermost and the innermost.
LevelChoices == {1, 2, MAX_HEADING_LEVEL}

\* The headings dealt out to two pages, with a page without headings between.
PagesOf(hs, split) ==
    <<[pageNumber |-> 0, headings |-> SubSeq(hs, 1, split)],
      [pageNumber |-> 1],
      [pageNumber |-> 2, headings |-> SubSeq(hs, split + 1, Len(hs))]>>

InitStacks ==
    /\ algo = "stacks" /\ pc = "start"
    /\ text = <<>>
    /\ \E n \in 0..MaxHeadings :
          \E ls \in [1..n -> LevelChoices], cs \in [1..n -> CalloutsBelow \cup {NoCallout}] :
             \E split \in {0, n \div 2} :
                pages = PagesOf([k \in 1..n |-> HeadingAt(k, ls[k], cs[k])], split)
    /\ IdlePagination /\ IdleRender /\ IdleStacks

NextStacks == StackHeading \/ StackReturn

SpecStacks == InitStacks /\ [][NextStacks]_vars

(***************************************************************************)
(* The numbering specification: computeHeadingNumbers                      *)
(***************************************************************************)

MaxNumbered == 4   \* the pages handed to computeHeadingNumbers hold up to MaxNumbered headings

\* The levels of the numbered headings: the three outermost, the innermost,
\* and a level beyond it.
NumberedLevels == {1, 2, 3, MAX_HEADING_LEVEL, MAX_HEADING_LEVEL + 1}

\* What an earlier run left in the map.
StaleNumbers == {<<>>, MapSet(<<>>, 0, <<"9">>)}

InitNumbers ==
    /\ algo = "numbers" /\ pc = "start"
    /\ text = <<>>
    /\ \E n \in 0..MaxNumbered :
          \E ls \in [1..n -> NumberedLevels] :
             \E split \in {0, n \div 2} :
                pages = PagesOf([k \in 1..n |-> HeadingAt(k, ls[k], NoCallout)], split)
    /\ IdlePagination /\ IdleRender
    /\ calloutStack = <<>> /\ stackMap = <<>> /\ stackPos = 0
    /\ counters = <<>>
    /\ headingNumberMap \in StaleNumbers

NextNumbers == NumberStart \/ NumberHeading \/ NumberReturn

SpecNumbers == InitNumbers /\ [][NextNumbers]_vars

(***************************************************************************)
(* The scratch container of the measuring paginators: FastPaginator        *)
(* (fastPagination.ts) and ContentMeasurer under AdaptivePaginator         *)
(* (part_001).  Both extend obsidian's Component: register(cb) keeps the   *)
(* callback, unload() runs the callbacks kept and forgets them.            *)
(***************************************************************************)

MaxContainers == 4   \* a behaviour creates up to MaxContainers scratch containers

Scratch == algo \in {"fast-scratch", "adaptive-scratch"}

\* The guard of setupMeasureContainer (line 237) and of setup (lines 37-39).
SetupDone == IF algo = "fast-scratch" THEN measureContainer # 0 ELSE isSetup

\* setupMeasureContainer, lines 236-254, and ContentMeasurer.setup, lines
\* 36-60: unless set up, create a container, attach it to document.body and
\* register the callback that releases it.
Setup ==
    IF SetupDone
    THEN UNCHANGED <<body, measureContainer, isSetup, events, created>>
    ELSE /\ created' = created + 1
         /\ measureContainer' = created + 1
         /\ body' = body \cup {created + 1}
         /\ isSetup' = (algo = "adaptive-scratch")
         /\ events' = events + 1

\* The registered callback, fastPagination.ts lines 248-253 and part_001
\* lines 54-59: detach the container the field refers to; FastPaginator
\* forgets it, ContentMeasurer clears isSetup and keeps the reference.
Release ==
    /\ body' = body \ {measureContainer}
    /\ measureContainer' = IF algo = "fast-scratch" THEN 0 ELSE measureContainer
    /\ isSetup' = FALSE

\* parseDocument is called (fastPagination.ts lines 30-35, part_001 lines
\* 230-236): nothing for a blank text, else the set-up.
ScratchParse ==
    /\ Scratch /\ pc = "idle"
    /\ \E blank \in BOOLEAN :
          IF blank
          THEN UNCHANGED <<pc, scratchVars>>
          ELSE /\ SetupDone \/ created < MaxContainers
               /\ Setup
               /\ pc' = "parsing"
               /\ unloaded' = FALSE
               /\ UNCHANGED <<children, measureEl>>
    /\ UNCHANGED <<colorVars, stripVars, viewVars, inputVars, wordMatches, currentWordIndex, pageNumber, pages, adaptiveVars,
                   renderVars, stackVars, fastVars, measurerVars>>

\* A measurement of the running parseDocument begins.  measureContentHeight,
\* lines 182-188: 0 at once without a container, else an element is created
\* in it.  measureContent, lines 70-77: the set-up when isSetup is false,
\* then the element.
ScratchMeasure ==
    /\ Scratch /\ pc = "parsing"
    /\ IF algo = "fast-scratch"
       THEN IF measureContainer = 0
            THEN UNCHANGED <<pc, scratchVars>>
            ELSE /\ children' = children \cup {measureContainer}
                 /\ measureEl' = measureContainer
                 /\ pc' = "measuring"
                 /\ UNCHANGED <<body, measureContainer, isSetup, events, unloaded, created>>
       ELSE /\ SetupDone \/ created < MaxContainers
            /\ Setup
            /\ children' = children \cup {measureContainer'}
            /\ measureEl' = measureContainer'
            /\ pc' = "measuring"
            /\ UNCHANGED unloaded
    /\ UNCHANGED <<colorVars, stripVars, viewVars, inputVars, wordMatches, currentWordIndex, pageNumber, pages, adaptiveVars,
                   renderVars, stackVars, fastVars, measurerVars>>

\* The measurement returns, the renderer having thrown or not:
\* measureContentHeight removes the element on line 209 or on line 213,
\* measureContent on line 120.
ScratchMeasured ==
    /\ Scratch /\ pc = "measuring"
    /\ \E threw \in BOOLEAN :
          /\ children' = children \ {measureEl}
          /\ measureEl' = 0
          /\ renderer' = IF threw THEN "throws" ELSE "ok"
    /\ pc' = "parsing"
    /\ UNCHANGED <<algo, text, wordTotal, wordsPerPage, estimatedWords, maxIterations,
                   oracleCap, pageHeight, wordMatches, currentWordIndex, pageNumber, pages,
                   adaptiveVars, renderVars, stackVars, fastVars, measurerVars,
                   body, measureContainer, isSetup, events, unloaded, created, colorVars, stripVars, viewVars>>

\* parseDocument returns its pages.
ScratchReturn ==
    /\ Scratch /\ pc = "parsing"
    /\ pc' = "idle"
    /\ UNCHANGED <<scratchVars, colorVars, stripVars, viewVars, inputVars, wordMatches, currentWordIndex, pageNumber, pages,
                   adaptiveVars, renderVars, stackVars, fastVars, measurerVars>>

\* FastPaginator.unload() or AdaptivePaginator.cleanup() (part_001 lines
\* 463-465) is called, between two calls or while parseDocument awaits a
\* measurement: the callbacks registered run and are forgotten.
ScratchUnload ==
    /\ Scratch
    /\ IF events > 0 THEN Release ELSE UNCHANGED <<body, measureContainer, isSetup>>
    /\ events' = 0
    /\ unloaded' = TRUE
    /\ UNCHANGED <<colorVars, stripVars, viewVars, inputVars, pc, wordMatches, currentWordIndex, pageNumber, pages,
                   adaptiveVars, renderVars, stackVars, fastVars, measurerVars,
                   children, created, measureEl>>

InitScratch ==
    /\ Scratch /\ pc = "idle"
    /\ text = <<>> /\ pages = <<>>
    /\ IdlePagination /\ IdleRender /\ IdleStacks

NextScratch ==
    ScratchParse \/ ScratchMeasure \/ ScratchMeasured \/ ScratchReturn \/ ScratchUnload

SpecScratch == InitScratch /\ [][NextScratch]_vars

(***************************************************************************)
(* The flag colour specification: setFlagColorMap and getFlagColor         *)
(***************************************************************************)

\* setFlagColorMap(colors), lines 16-18, called with the settings' map
\* (main.ts line 31, settingsTab.ts lines 82, 298, 451).
SetFlagColorMap ==
    /\ algo = "colors"
    /\ \E colors \in SettingsFlagColors : flagColorMap' = colors
    /\ UNCHANGED <<flagType, flagColor, scratchVars, stripVars, viewVars, inputVars, pc, wordMatches,
                   currentWordIndex, pageNumber, pages, adaptiveVars, renderVars, stackVars,
                   fastVars, measurerVars>>

\* getFlagColor(type) is called.
GetFlagColor ==
    /\ algo = "colors"
    /\ \E type \in AskedTypes :
          /\ flagType' = type
          /\ flagColor' = getFlagColor(flagColorMap, type)
    /\ UNCHANGED <<flagColorMap, scratchVars, stripVars, viewVars, inputVars, pc, wordMatches, currentWordIndex,
                   pageNumber, pages, adaptiveVars, renderVars, stackVars, fastVars,
                   measurerVars>>

InitColors ==
    /\ algo = "colors" /\ pc = "idle"
    /\ text = <<>> /\ pages = <<>>
    /\ IdlePagination /\ IdleRender /\ IdleStacks

NextColors == SetFlagColorMap \/ GetFlagColor

SpecColors == InitColors /\ [][NextColors]_vars

(***************************************************************************)
(* The export specification: stripFlagsAndComments, statement by statement *)
(***************************************************************************)

MaxStripPieces == 3   \* a document to strip is built of up to MaxStripPieces pieces

\* What a document to strip is built of: flags with a type of one and of two
\* letters, a comment, the halves of a flag and of a comment, single
\* delimiter characters, a callout line, text and white space.
StripPieces ==
    {<<"=", "=", "a", ":", "x", "=", "=">>,
     <<"=", "=", "a", "b", ":", " ", "x", "=", "=">>,
     <<"=", "a", "b", ":", "y", "=", "=">>,
     <<"%", "%", "c", "%", "%">>,
     <<"%", "c", "%", "%">>,
     <<"=">>,
     <<"%">>,
     <<">", " ", "[", "!", "n", "]", "\n">>,
     <<"x", " ", " ", "\n">>,
     <<"\n">>}

\* stripFlagsAndComments, lines 505-506: the guard and the comments.
StripComments ==
    /\ algo = "strip" /\ pc = "start"
    /\ result' = IF text = <<>> THEN <<>> ELSE ReplaceBlockComments(text, 0)
    /\ pc' = IF text = <<>> THEN "done" ELSE "comments"
    /\ UNCHANGED <<viewVars, inputVars, wordMatches, currentWordIndex, pageNumber, pages, adaptiveVars,
                   renderVars, stackVars, fastVars, measurerVars, scratchVars, colorVars>>

\* Line 507.
StripFlags ==
    /\ algo = "strip" /\ pc = "comments"
    /\ result' = ReplaceInlineFlags(result, 0)
    /\ pc' = "flags"
    /\ UNCHANGED <<viewVars, inputVars, wordMatches, currentWordIndex, pageNumber, pages, adaptiveVars,
                   renderVars, stackVars, fastVars, measurerVars, scratchVars, colorVars>>

\* Line 508.
StripCallouts ==
    /\ algo = "strip" /\ pc = "flags"
    /\ result' = removeCalloutBlocks(result)
    /\ pc' = "callouts"
    /\ UNCHANGED <<viewVars, inputVars, wordMatches, currentWordIndex, pageNumber, pages, adaptiveVars,
                   renderVars, stackVars, fastVars, measurerVars, scratchVars, colorVars>>

\* Line 509.
StripCollapse ==
    /\ algo = "strip" /\ pc = "callouts"
    /\ result' = collapseWhitespace(result)
    /\ pc' = "collapsed"
    /\ UNCHANGED <<viewVars, inputVars, wordMatches, currentWordIndex, pageNumber, pages, adaptiveVars,
                   renderVars, stackVars, fastVars, measurerVars, scratchVars, colorVars>>

\* Line 510.
StripTrim ==
    /\ algo = "strip" /\ pc = "collapsed"
    /\ result' = Trim(result)
    /\ pc' = "done"
    /\ UNCHANGED <<viewVars, inputVars, wordMatches, currentWordIndex, pageNumber, pages, adaptiveVars,
                   renderVars, stackVars, fastVars, measurerVars, scratchVars, colorVars>>

InitStrip ==
    /\ algo = "strip" /\ pc = "start"
    /\ \E k \in 0..MaxStripPieces : \E ss \in [1..k -> StripPieces] : text = Concat(ss)
    /\ pages = <<>>
    /\ IdlePagination /\ IdleRender /\ IdleStacks

NextStrip == StripComments \/ StripFlags \/ StripCallouts \/ StripCollapse \/ StripTrim

SpecStrip == InitStrip /\ [][NextStrip]_vars

(***************************************************************************)
(* The view specification: LongView.updateView, the mode buttons, and the  *)
(* renderers of the three modes.  An invocation runs to its next await in  *)
(* one step; calls holds the invocations that wait, and those that ended.  *)
(***************************************************************************)

MaxCalls == 3   \* the handlers invoked in one behaviour

Files == {"A", "B"}

\* The documents in the vault.  File B holds plain text; file A an empty
\* document, a heading with a callout and a heading below it, plain text, or
\* headings without callouts.
PlainDoc == <<"x", " ", "y", "\n">>

ViewDocs ==
    {<<>>,
     <<"#", " ", "a", "\n", ">", " ", "[", "!", "n", "o", "t", "e", "]", " ", "T", "\n",
       "#", "#", " ", "b", "\n", "x", "\n">>,
     <<"x", "\n">>,
     <<"#", " ", "a", "\n", "#", "#", " ", "b", "\n">>}

Waiting(at, file) == [at |-> at, file |-> file]
Ended == Waiting("done", Null)

\* Every invocation has run to its end.
Settled == \A i \in 1..Len(calls) : calls[i].at \in {"done", "threw"}

\* The view is driven in one of two ways: "view", where a handler may run
\* while earlier invocations wait at an await, and "view-serial", where a
\* handler runs only once every earlier invocation has run to its end.
Viewing == algo \in {"view", "view-serial"}
MayInvoke == Len(calls) < MaxCalls /\ (algo = "view-serial" => Settled)

\* updateView, lines 281-311, to its first await: in summary mode
\* refreshSummary waits for the scan of the vault; without an active file the
\* view is emptied; else currentFile is set and the read of the file awaited.
UpdateViewEnter(mode, file) ==
    IF mode = "summary"
    THEN /\ calls' = Append(calls, Waiting("scan", Null))
         /\ UNCHANGED <<currentFile, documentLength>>
    ELSE IF file = Null
    THEN /\ currentFile' = Null
         /\ documentLength' = 0
         /\ calls' = Append(calls, Ended)
    ELSE /\ currentFile' = file
         /\ calls' = Append(calls, Waiting("read", file))
         /\ UNCHANGED documentLength

\* The click handler of the minimap button, lines 185-192.
ClickMinimap ==
    /\ Viewing /\ MayInvoke
    /\ currentMode' = "minimap"
    /\ UpdateViewEnter("minimap", activeFile)
    /\ UNCHANGED <<activeFile, vault, minimapSections, minimapRenderer, summaryRenderer,
                   pagedCalloutStacks, scratchVars, colorVars, stripVars, inputVars, pc,
                   wordMatches, currentWordIndex, pageNumber, pages, adaptiveVars, renderVars,
                   stackVars, fastVars, measurerVars>>

\* The click handler of the paged button, lines 194-201.
ClickPaged ==
    /\ Viewing /\ MayInvoke
    /\ currentMode' = "paged"
    /\ UpdateViewEnter("paged", activeFile)
    /\ UNCHANGED <<activeFile, vault, minimapSections, minimapRenderer, summaryRenderer,
                   pagedCalloutStacks, scratchVars, colorVars, stripVars, inputVars, pc,
                   wordMatches, currentWordIndex, pageNumber, pages, adaptiveVars, renderVars,
                   stackVars, fastVars, measurerVars>>

\* The click handler of the summary button, lines 204-211, to its first
\* await (saveSettings).
ClickSummary ==
    /\ Viewing /\ MayInvoke
    /\ currentMode' = "summary"
    /\ calls' = Append(calls, Waiting("save", Null))
    /\ UNCHANGED <<activeFile, vault, currentFile, documentLength, minimapSections,
                   minimapRenderer, summaryRenderer, pagedCalloutStacks, scratchVars,
                   colorVars, stripVars, inputVars, pc, wordMatches, currentWordIndex,
                   pageNumber, pages, adaptiveVars, renderVars, stackVars, fastVars,
                   measurerVars>>

\* The click handler of the refresh button, lines 175-182.
ClickRefresh ==
    /\ Viewing /\ MayInvoke
    /\ UpdateViewEnter(currentMode, activeFile)
    /\ UNCHANGED <<currentMode, activeFile, vault, minimapSections, minimapRenderer,
                   summaryRenderer, pagedCalloutStacks, scratchVars, colorVars, stripVars,
                   inputVars, pc, wordMatches, currentWordIndex, pageNumber, pages,
                   adaptiveVars, renderVars, stackVars, fastVars, measurerVars>>

\* The workspace opens a file, or closes the last one, and the handler of
\* "file-open" runs, lines 259-263.
FileOpen ==
    /\ Viewing /\ MayInvoke
    /\ \E f \in Files \cup {Null} :
          /\ activeFile' = f
          /\ UpdateViewEnter(currentMode, f)
    /\ UNCHANGED <<currentMode, vault, minimapSections, minimapRenderer, summaryRenderer,
                   pagedCalloutStacks, scratchVars, colorVars, stripVars, inputVars, pc,
                   wordMatches, currentWordIndex, pageNumber, pages, adaptiveVars, renderVars,
                   stackVars, fastVars, measurerVars>>

\* new MiniMapRenderer(...) and the start of initialize(pages),
\* miniMapRenderer.ts lines 83-87 and 645-647.
NewMiniMapRenderer(sections) ==
    <<[pages |-> sections,
       headingCalloutStacks |-> computeHeadingCalloutStacks(sections)]>>

\* updateView, lines 312-336, from the read of the file on: the document is
\* parsed for both modes, then renderPaged (lines 723-800) runs to its end,
\* or renderMinimap (lines 668-714) to its await of initialize.
ReadResolves ==
    /\ Viewing
    /\ \E i \in 1..Len(calls) :
          /\ calls[i].at = "read"
          /\ LET content == vault[calls[i].file]
             IN  /\ documentLength' = Len(content)
                 /\ pages' = paginateDocument(content)
                 /\ minimapSections' = buildMinimapSections(content)
          /\ IF currentMode = "paged"
             THEN /\ minimapRenderer' = NullRenderer
                  /\ pagedCalloutStacks' = IF pages' = <<>> THEN pagedCalloutStacks
                                           ELSE computeHeadingCalloutStacks(pages')
                  /\ calls' = [calls EXCEPT ![i] = Ended]
             ELSE IF minimapSections' = <<>>
             THEN /\ minimapRenderer' = NullRenderer
                  /\ calls' = [calls EXCEPT ![i] = Ended]
                  /\ UNCHANGED pagedCalloutStacks
             ELSE /\ minimapRenderer' = NewMiniMapRenderer(minimapSections')
                  /\ calls' = [calls EXCEPT ![i] = Waiting("init", calls[i].file)]
                  /\ UNCHANGED pagedCalloutStacks
    /\ UNCHANGED <<currentMode, activeFile, vault, currentFile, summaryRenderer, scratchVars,
                   colorVars, stripVars, inputVars, pc, wordMatches, currentWordIndex,
                   pageNumber, adaptiveVars, renderVars, stackVars, fastVars, measurerVars>>

\* renderMinimap, lines 715-720, after initialize: the call on
\* this.minimapRenderer throws when the field is null by now.
InitializeResolves ==
    /\ Viewing
    /\ \E i \in 1..Len(calls) :
          /\ calls[i].at = "init"
          /\ calls' = [calls EXCEPT ![i] =
                          IF minimapRenderer = NullRenderer
                          THEN Waiting("threw", Null) ELSE Ended]
    /\ UNCHANGED <<currentMode, activeFile, vault, currentFile, documentLength,
                   minimapSections, minimapRenderer, summaryRenderer, pagedCalloutStacks,
                   scratchVars, colorVars, stripVars, inputVars, pc, wordMatches,
                   currentWordIndex, pageNumber, pages, adaptiveVars, renderVars, stackVars,
                   fastVars, measurerVars>>

\* The summary click handler after saveSettings, lines 209-210:
\* refreshSummary waits for the scan of the vault.
SaveResolves ==
    /\ Viewing
    /\ \E i \in 1..Len(calls) :
          /\ calls[i].at = "save"
          /\ calls' = [calls EXCEPT ![i] = Waiting("scan", Null)]
    /\ UNCHANGED <<currentMode, activeFile, vault, currentFile, documentLength,
                   minimapSections, minimapRenderer, summaryRenderer, pagedCalloutStacks,
                   scratchVars, colorVars, stripVars, inputVars, pc, wordMatches,
                   currentWordIndex, pageNumber, pages, adaptiveVars, renderVars, stackVars,
                   fastVars, measurerVars>>

\* refreshSummary, lines 1121-1127, after the scan, and renderSummary, lines
\* 1130-1176, to its await of render.
ScanResolves ==
    /\ Viewing
    /\ \E i \in 1..Len(calls) :
          /\ calls[i].at = "scan"
          /\ calls' = [calls EXCEPT ![i] = Waiting("render", Null)]
    /\ minimapRenderer' = NullRenderer
    /\ summaryRenderer' = <<"SummaryRenderer">>
    /\ UNCHANGED <<currentMode, activeFile, vault, currentFile, documentLength,
                   minimapSections, pagedCalloutStacks, scratchVars, colorVars, stripVars,
                   inputVars, pc, wordMatches, currentWordIndex, pageNumber, pages,
                   adaptiveVars, renderVars, stackVars, fastVars, measurerVars>>

\* renderSummary, lines 1177-1181, after render.
SummaryRendered ==
    /\ Viewing
    /\ \E i \in 1..Len(calls) :
          /\ calls[i].at = "render"
          /\ calls' = [calls EXCEPT ![i] = Ended]
    /\ UNCHANGED <<currentMode, activeFile, vault, currentFile, documentLength,
                   minimapSections, minimapRenderer, summaryRenderer, pagedCalloutStacks,
                   scratchVars, colorVars, stripVars, inputVars, pc, wordMatches,
                   currentWordIndex, pageNumber, pages, adaptiveVars, renderVars, stackVars,
                   fastVars, measurerVars>>

\* The view in onOpen before its first rendering, lines 142-143: the mode is
\* the one of the settings.
InitView ==
    /\ Viewing /\ pc = "idle"
    /\ text = <<>> /\ pages = <<>>
    /\ wordsPerPage = 0 /\ estimatedWords = 0 /\ maxIterations = 0 /\ oracleCap = AnyOracle
    /\ wordTotal = 0
    /\ wordMatches = <<>> /\ currentWordIndex = 0 /\ pageNumber = 0
    /\ currentOffset = 0 /\ startWordIndex = 0 /\ minWords = 0 /\ maxWords = 0
    /\ bestFit = NoFit /\ iterations = 0 /\ measureLog = <<>>
    /\ fitWordCount = 0 /\ attempts = 0 /\ renderFailures = 0
    /\ IdleScratch /\ IdleColors /\ IdleStrip /\ NoRenderer
    /\ IdleRender /\ IdleStacks
    /\ currentMode \in {"minimap", "paged", "summary"}
    /\ activeFile \in Files \cup {Null}
    /\ \E doc \in ViewDocs : vault = [f \in Files |-> IF f = "A" THEN doc ELSE PlainDoc]
    /\ currentFile = Null /\ documentLength = 0 /\ minimapSections = <<>>
    /\ minimapRenderer = NullRenderer /\ summaryRenderer = NullRenderer
    /\ pagedCalloutStacks = <<>> /\ calls = <<>>

NextView ==
    \/ ClickMinimap \/ ClickPaged \/ ClickSummary \/ ClickRefresh \/ FileOpen
    \/ ReadResolves \/ InitializeResolves \/ SaveResolves \/ ScanResolves
    \/ SummaryRendered

SpecView == InitView /\ [][NextView]_vars

(***************************************************************************)
(* Properties of the paginators                                            *)
(***************************************************************************)

\* The whitespace-delimited words of t, in order, each as its characters.
WordStrings(t) ==
    LET wm == MatchAllWords(t)
    IN  [k \in 1..Len(wm) |-> SubSeq(t, wm[k].index + 1, wm[k].index + wm[k].len)]

\* The words read off the pages' content in page order.
RECURSIVE PagesWords(_)
PagesWords(ps) ==
    IF ps = <<>> THEN <<>>
    ELSE PagesWords(SubSeq(ps, 1, Len(ps) - 1)) \o WordStrings(ps[Len(ps)].content)

\* The number of words on the pages ps[lo..hi].
RECURSIVE SumWordCounts(_, _, _)
SumWordCounts(ps, lo, hi) ==
    IF lo > hi THEN 0
    ELSE IF lo = hi THEN ps[lo].wordCount
    ELSE LET mid == (lo + hi) \div 2
         IN  SumWordCounts(ps, lo, mid) + SumWordCounts(ps, mid + 1, hi)

\* The number of pages, and of words, that runs of pages stand for.
RECURSIVE RunsPages(_)
RunsPages(runs) ==
    IF runs = <<>> THEN 0
    ELSE RunsPages(SubSeq(runs, 1, Len(runs) - 1)) + runs[Len(runs)].count

RECURSIVE RunsWords(_)
RunsWords(runs) ==
    IF runs = <<>> THEN 0
    ELSE RunsWords(SubSeq(runs, 1, Len(runs) - 1))
             + runs[Len(runs)].count * runs[Len(runs)].wordCount

\* pages.length of the pages returned.
\* The documents given by their number of words: their pages are kept as runs.
Counted == algo \in {"simple-images", "fast-words"}

PagesReturned == IF Counted THEN RunsPages(pages) ELSE Len(pages)

IsPrefix(s, t) == Len(s) <= Len(t) /\ SubSeq(t, 1, Len(s)) = s

\* The pages hold the words of the document, in order, none lost and none
\* doubled.  The words of a document of image links are all the same link:
\* there the pages hold them all exactly when they hold as many.
PagesKeepWords ==
    IF Counted
    THEN RunsWords(pages) = wordTotal
    ELSE PagesWords(pages) = WordStrings(text)

\* The pages hold the first words of the document, in order, none doubled.
PagesKeepFirstWords ==
    IF Counted
    THEN RunsWords(pages) <= wordTotal
    ELSE IsPrefix(PagesWords(pages), WordStrings(text))

SimpleReturned == algo \in {"simple", "simple-images"} /\ pc = "done"

\* C1: when paginateDocument has returned at most MAX_PAGES pages, the words
\* read off its pages in page order are exactly the words of the document,
\* none lost, none doubled; when it has returned more, the page ceiling has
\* stopped it and the pages hold the first words of the document.
C1_KeepsWordsBelowCeiling ==
    SimpleReturned =>
        /\ PagesKeepFirstWords
        /\ PagesReturned <= MAX_PAGES => PagesKeepWords

\* C1 as stated: whatever the document, the words read off the pages of
\* paginateDocument are exactly the words of the document.
C1_SimpleKeepsWords == SimpleReturned => PagesKeepWords

\* C1 witness: paginateDocument returned at least two pages of a document
\* whose words are separated by spaces and line breaks.
C1_Witness ==
    /\ algo = "simple" /\ pc = "done"
    /\ Len(pages) >= 2
    /\ \E i \in 1..Len(text) : text[i] = "\n"

\* The page ceiling stopped paginateDocument with words of the document left.
CeilingCutsDocument ==
    /\ algo = "simple-images" /\ pc = "done"
    /\ PagesReturned = MAX_PAGES + 1
    /\ currentWordIndex < wordTotal

\* paginateDocument on a document of image links given as text returns pages
\* of the word counts that ImageWordsPageAt gives for its number of links.
ImageWordsAgree ==
    (algo = "simple" /\ pc = "done" /\ \E n \in ImageWordCounts : text = ImageWordsText(n)) =>
        LET n == Len(text) \div IMAGE_STRIDE
            starts == [k \in 1..Len(pages) |-> SumWordCounts(pages, 1, k - 1)]
        IN  \A k \in 1..Len(pages) :
                /\ pages[k].wordCount = ImageWordsPageAt(n, starts[k]).wordCount
                /\ pages[k].startOffset = starts[k] * IMAGE_STRIDE

\* C2: every page of paginateDocument and of parseDocumentIntoPages starts at
\* the first character of a word, ends just past the last character of a
\* word, is not empty, and starts at or after the end of the page before it.
C2_PageBoundaries ==
    algo \in {"simple", "legacy"} =>
        \A k \in 1..Len(pages) :
            /\ pages[k].startOffset < pages[k].endOffset
            /\ pages[k].endOffset <= Len(text)
            /\ IsWordStart(text, pages[k].startOffset)
            /\ IsWordEnd(text, pages[k].endOffset)
            /\ k > 1 => pages[k].startOffset >= pages[k - 1].endOffset

\* C2 witness: parseDocumentIntoPages returned two pages or more with
\* whitespace dropped between two of them.
C2_Witness ==
    /\ algo = "legacy" /\ pc = "done"
    /\ Len(pages) >= 2
    /\ \E k \in 2..Len(pages) : pages[k].startOffset > pages[k - 1].endOffset + 1

\* C3: paginateDocument and AdaptivePaginator.parseDocument return no page
\* (and do not throw) for an empty or whitespace-only document, and every
\* page they build holds at least one word.
C3_NoEmptyPage ==
    algo \in {"simple", "adaptive"} =>
        /\ pc # "threw"
        /\ (pc = "done" /\ IsBlank(text)) => pages = <<>>
        /\ IsBlank(text) => pc \in {"start", "done"}
        /\ \A k \in 1..Len(pages) :
              pages[k].wordCount >= 1 /\ ~IsBlank(pages[k].content)

\* C3 witness: the adaptive paginator returned two pages or more, the last
\* one shorter than the minimum-viable page.
C3_Witness ==
    /\ algo = "adaptive" /\ pc = "done"
    /\ Len(pages) >= 2
    /\ pages[Len(pages)].wordCount < MIN_WORDS

\* The number of measurements of one kind made for the page being built.
Measured(kind) == Cardinality({i \in 1..Len(measureLog) : measureLog[i].kind = kind})

\* C10: for every page, findOptimalWordCount makes one estimate measurement,
\* at most maxIterations binary-search measurements and at most one fallback
\* measurement, and what it returns is a candidate measured as fitting or,
\* when nothing fit, the fallback of 10 words (fewer when fewer remain).
C10_SearchBoundedAndFits ==
    algo = "adaptive" =>
        /\ Measured("estimate") <= 1
        /\ Measured("search") <= maxIterations
        /\ Measured("fallback") <= 1
        /\ pc = "emit" =>
              /\ bestFit # NoFit
              /\ \/ /\ bestFit.contentHeight
                          <= pageDimensions.height - 2 * pageDimensions.paddingVertical
                    /\ \E i \in 1..Len(measureLog) :
                          /\ measureLog[i].kind # "fallback"
                          /\ measureLog[i].fits
                          /\ measureLog[i].wordCount = bestFit.wordCount
                 \/ /\ measureLog[Len(measureLog)].kind = "fallback"
                    /\ \A i \in 1..(Len(measureLog) - 1) : ~measureLog[i].fits
                    /\ bestFit.wordCount
                          = Min(MIN_WORDS, Len(wordMatches) - startWordIndex)

\* C10 witness: the iteration cap ended a binary search whose range was still
\* open, and a fitting candidate is returned.
C10_Witness ==
    /\ algo = "adaptive" /\ pc = "emit"
    /\ iterations = maxIterations
    /\ minWords < maxWords
    /\ bestFit.contentHeight <= pageDimensions.height - 2 * pageDimensions.paddingVertical

\* The search range of the page being built, as C23 names it, and the
\* counts in it whose content fits under the capped oracle.
RangeTop == Min(estimatedWords * 2, Len(wordMatches) - startWordIndex)
FittingInRange == {n \in MIN_WORDS..RangeTop : n <= oracleCap}

SearchReturned == algo = "adaptive" /\ oracleCap # AnyOracle /\ pc = "emit"

\* C23: under an oracle whose height grows with the number of words, when a
\* count in [10, min(2 x estimate, remaining words)] fits, the count
\* findOptimalWordCount returns is the largest count in that range that fits,
\* whatever the iteration cap.
C23_ReturnsLargestFit ==
    SearchReturned /\ FittingInRange # {} =>
        \A n \in FittingInRange : n <= bestFit.wordCount

\* The same under the iteration cap the constructor sets by default, with
\* the estimate of MIN_ESTIMATE words: there the search runs to its end.
DefaultCapReturnsLargestFit ==
    SearchReturned /\ FittingInRange # {} /\ maxIterations = DEFAULT_MAX_ITERATIONS =>
        /\ bestFit.wordCount \in FittingInRange
        /\ \A n \in FittingInRange : n <= bestFit.wordCount

\* What is returned is never more than the largest count that fits.
ReturnsNoMoreThanFits ==
    SearchReturned /\ FittingInRange # {} => bestFit.wordCount \in FittingInRange

\* C12: the pages returned by paginateDocument are never more than
\* MAX_PAGES, the page ceiling.
C12_AtMostCeilingPages == SimpleReturned => PagesReturned <= MAX_PAGES

\* The number of image links in the text from the first character of the
\* word at index first (0-based) to the last character of the last of the
\* BASE_WORDS words from it on.
ImagesAhead(t, wm, first) ==
    LET last == Min(first + BASE_WORDS, Len(wm))
    IN  CountImageMatches(Substring(t, wm[first + 1].index, wm[last].index + wm[last].len), 0)

WellNested(hs) ==
    /\ hs # <<>> => hs[1].level = 1
    /\ \A j \in 1..Len(hs) : hs[j].level \in 1..MAX_HEADING_LEVEL
    /\ \A j \in 2..Len(hs) : hs[j].level <= hs[j - 1].level + 1

\* The heading above the j-th: the last one before it of a shallower level
\* (0 when there is none).
ParentOf(hs, j) ==
    LET above == {i \in 1..(j - 1) : hs[i].level < hs[j].level}
    IN  IF above = {} THEN 0 ELSE CHOOSE i \in above : \A i2 \in above : i2 <= i

\* The outline number of the j-th heading: the number of the heading above
\* it, then its rank among the headings of its level under that heading.
RECURSIVE OutlineNumber(_, _)
OutlineNumber(hs, j) ==
    LET parent == ParentOf(hs, j)
        rank   == Cardinality({i \in (parent + 1)..j : hs[i].level = hs[j].level})
    IN  IF parent = 0 THEN <<rank>> ELSE Append(OutlineNumber(hs, parent), rank)

\* C14: once computeHeadingNumbers has handled a heading of a list whose
\* levels start at 1 and never go deeper by more than one at a time, the map
\* holds under the heading's offset its outline number, dotted.
C14_OutlineNumbers ==
    (algo = "numbers" /\ pc # "start") =>
        LET hs == HeadingsInOrder(pages)
        IN  WellNested(hs) =>
                /\ DOMAIN headingNumberMap = {hs[j].startOffset : j \in 1..stackPos}
                /\ \A j \in 1..stackPos :
                       LET number == OutlineNumber(hs, j)
                       IN  headingNumberMap[hs[j].startOffset]
                               = Join([k \in 1..Len(number) |-> ToDecimal(number[k])])

\* C14 witness: computeHeadingNumbers has numbered the levels 1, 2, 2, 1 as
\* 1, 1.1, 1.2, 2.
C14_Witness ==
    /\ algo = "numbers" /\ pc = "done"
    /\ LET hs == HeadingsInOrder(pages)
       IN  /\ [j \in 1..Len(hs) |-> hs[j].level] = <<1, 2, 2, 1>>
           /\ [j \in 1..Len(hs) |-> headingNumberMap[hs[j].startOffset]]
                  = <<(<<"1">>), <<"1", ".", "1">>, <<"1", ".", "2">>, <<"2">>>>

(***************************************************************************)
(* Properties of the measuring paginators                                  *)
(***************************************************************************)

WordsAtMost == IF Counted THEN wordTotal ELSE Len(text)
WordsPaged == IF Counted THEN RunsWords(pages) ELSE SumWordCounts(pages, 1, Len(pages))

Measuring == algo \in {"fast", "fast-words", "adaptive"}

\* A number that every step of a measuring paginator lowers: the words not
\* yet on a page count most, then the steps the page being built can still
\* take (maxAttempts attempts, maxIterations iterations of the search).
StepsOfAPage == MAX_ATTEMPTS + maxIterations + 6

StepsLeft ==
    CASE pc = "page"     -> StepsOfAPage - 1
      [] pc = "fit"      -> MAX_ATTEMPTS - attempts + 1
      [] pc = "estimate" -> maxIterations + 3
      [] pc = "search"   -> maxIterations - iterations + 2
      [] pc = "fallback" -> 2
      [] pc = "emit"     -> 1
      [] OTHER           -> 0

Rank ==
    IF pc = "done" THEN 0
    ELSE IF pc = "start" THEN (WordsAtMost + 1) * StepsOfAPage
    ELSE (WordsAtMost - WordsPaged) * StepsOfAPage + StepsLeft

\* Every page pushed so far starts at the first word at or after the end of
\* the page before it (the first page at the first word of the document) and
\* ends after it: the current offset grows with every page.
PagesFollowOneAnother ==
    IF Counted
    THEN \A k \in 1..Len(pages) : pages[k].wordCount >= 1
    ELSE \A k \in 1..Len(pages) :
                LET prevEnd == IF k = 1 THEN 0 ELSE pages[k - 1].endOffset
                    idx     == FindWordIndex(wordMatches, prevEnd)
                IN  /\ idx # -1
                    /\ pages[k].startOffset = wordMatches[idx + 1].index
                    /\ pages[k].endOffset > prevEnd
                    /\ pages[k].pageNumber = k - 1

\* The words read off the pages are the first words parseDocument matched in
\* the document, in order, none doubled.
PagesKeepMatchedWords ==
    IF Counted
    THEN RunsWords(pages) <= wordTotal
    ELSE IsPrefix(PagesWords(pages),
                  [k \in 1..Len(wordMatches) |->
                      SubSeq(text, wordMatches[k].index + 1,
                             wordMatches[k].index + wordMatches[k].len)])

\* The state part of C22 with the page ceiling (the pages change when a page
\* is pushed, and then pc is "page" or "done").
MeasuringKeepsWordsBelowCeiling ==
    Measuring =>
        /\ PagesFollowOneAnother
        /\ pc \in {"page", "done"} => PagesKeepMatchedWords
        /\ pc \in {"start", "page", "fit", "estimate", "search", "fallback", "emit", "done"}
        /\ Rank >= 0 /\ (Rank = 0 <=> pc = "done")
        /\ pc = "done" /\ PagesReturned <= MAX_PAGES => PagesKeepWords
        /\ pc = "done" => PagesReturned <= MAX_PAGES + 1

\* C22, with the page ceiling: under every oracle AdaptivePaginator and
\* FastPaginator terminate (every step lowers Rank, which is never negative
\* and is 0 once parseDocument has returned), every page starts at the first word
\* after the page before it, and the pages hold the words of the document
\* once each and in order: all of them when at most MAX_PAGES pages were
\* returned, the first of them when the page ceiling ended the pagination.
C22_TerminatesAndKeepsWords ==
    /\ []MeasuringKeepsWordsBelowCeiling
    /\ [][Measuring => Rank' < Rank]_vars

\* C22 as stated: the pages returned hold every word of the document.
C22_MeasuringKeepsEveryWord == Measuring /\ pc = "done" => PagesKeepWords

\* C22 witness: AdaptivePaginator returned two pages or more that hold every
\* word of the document, and the search for the last of them measured a
\* candidate that overflowed and a shorter one that fit.
C22_Witness ==
    /\ algo = "adaptive" /\ pc = "done" /\ Len(pages) >= 2
    /\ PagesKeepWords
    /\ \E i, j \in 1..Len(measureLog) :
          /\ measureLog[i].wordCount < measureLog[j].wordCount
          /\ measureLog[i].fits /\ ~measureLog[j].fits

\* The page ceiling ended FastPaginator.parseDocument before the last word.
FastCeilingCutsDocument ==
    /\ algo = "fast-words" /\ pc = "done" /\ PagesReturned = MAX_PAGES + 1
    /\ RunsWords(pages) < wordTotal

\* fitContent has just returned the minimum-viable page: the attempts are
\* used up, and the page is pushed.
FastReturnedMinimum ==
    /\ algo = "fast" /\ pc \in {"page", "done"}
    /\ attempts = MAX_ATTEMPTS /\ Len(measureLog) = MAX_ATTEMPTS

\* fitContent has just returned from inside its loop: the candidate it
\* measured last.
FastReturnedCandidate ==
    /\ algo = "fast" /\ pc \in {"page", "done"}
    /\ attempts < MAX_ATTEMPTS /\ measureLog # <<>>

\* C24: FastPaginator.fitContent returns the minimum-viable page only when
\* none of the candidates it measured fit the available height.
C24_MinimumOnlyWhenNothingFit ==
    FastReturnedMinimum =>
        \A i \in 1..Len(measureLog) : measureLog[i].height > FastAvailableHalves

\* A page returned from inside the loop is the candidate measured last, and
\* it was measured as fitting.
CandidateReturnedFits ==
    FastReturnedCandidate =>
        LET last == measureLog[Len(measureLog)]
        IN  /\ last.height <= FastAvailableHalves
            /\ pages[Len(pages)].wordCount = last.wordCount

AdaptiveSurvivesFailures ==
    /\ algo = "adaptive" /\ pc = "done" /\ renderer = "throws"
    /\ renderFailures >= 2
    /\ Len(pages) >= 2

(***************************************************************************)
(* Properties of the parser, the tokenizer and the callout stacks          *)
(***************************************************************************)

\* The page buildMinimapSections returned, once it has.
Parsed == algo = "minimap" /\ pc # "start" /\ pages # <<>>

\* C4: the spans tokenizeContent hands out (gap text, heading lines, flag
\* matches, the tail) follow one another without gap or overlap from offset 0
\* on, and once it has returned they reach the end of the content: no
\* character is skipped or handed out twice, the cursor never moves back.
C4_SpansPartitionContent ==
    Parsed =>
        /\ \A k \in 1..Len(consumed) :
              /\ consumed[k].from <= consumed[k].to
              /\ consumed[k].from = (IF k = 1 THEN 0 ELSE consumed[k - 1].to)
        /\ pc = "done" =>
              /\ consumed # <<>>
              /\ consumed[Len(consumed)].to = Len(pages[1].content)

\* The end (exclusive) of the span parseFlags matched at offset i of the
\* content: the match of the flag pattern when it starts with "=", of the
\* comment pattern when it starts with "%".
AnnotationEnd(content, i) ==
    IF CharAt(content, i) = "=" THEN FlagMatchAt(content, i).end
    ELSE CommentMatchEnd(content, i)

\* C25: after the fragment of an annotation, the cursor of tokenizeContent
\* stands at the end of the span parseFlags matched at the annotation's
\* startOffset.
C25_CursorAtAnnotationEnd ==
    Parsed =>
        \A k \in 1..Len(consumed) :
            consumed[k].kind = "flag" =>
                consumed[k].to = AnnotationEnd(pages[1].content, consumed[k].from)

\* The same for the annotations whose type holds no hyphen and that stand
\* alone in their document.
LoneWordTypeCursorAtEnd ==
    Parsed /\ Len(pages[1].flags) = 1 /\ (\A j \in 1..Len(pages[1].flags[1].type) : pages[1].flags[1].type[j] # "-") =>
        \A k \in 1..Len(consumed) :
            consumed[k].kind = "flag" =>
                consumed[k].to = AnnotationEnd(pages[1].content, consumed[k].from)

\* The end (exclusive) of the line that holds offset p.
LineEndOf(t, p) == OrEnd(t, IndexOf(t, "\n", p))

\* The line starting at p begins with h = 1..6 "#", then a whitespace
\* character of that line, then at least one more character of that line.
IsHeadingLine(t, p) ==
    /\ p = 0 \/ CharAt(t, p - 1) = "\n"
    /\ HashRun(t, p) \in 1..MAX_HEADING_LEVEL
    /\ p + HashRun(t, p) + 1 < LineEndOf(t, p)
    /\ IsWS(CharAt(t, p + HashRun(t, p)))

\* C6: parseFlags on ==T: m== (T a letter followed by up to 24 letters,
\* digits, hyphens or underscores, m non-empty without "=") yields exactly one
\* annotation, of type T with message trim(m); on %% m %% (m without "%") it
\* yields exactly one annotation, of type COMMENT with message trim(m).
C6_FlagForms ==
    Parsed =>
        /\ \A T \in FlagTypes, m \in FlagMessages :
              text = TypedFlagText(T, m) =>
                  /\ Len(pages[1].flags) = 1
                  /\ pages[1].flags[1].type = T
                  /\ pages[1].flags[1].message = Trim(m)
        /\ \A m \in FlagMessages :
              text = CommentText(m) =>
                  /\ Len(pages[1].flags) = 1
                  /\ pages[1].flags[1].type = COMMENT_TYPE
                  /\ pages[1].flags[1].message = Trim(m)

\* C7: parseHeadingsWithCallouts returns one heading for exactly the lines
\* that begin with 1 to 6 "#", whitespace and further text on that line; its
\* level is the number of "#", its text the trimmed remainder of that line,
\* its startOffset the offset of the line; startOffset increases strictly.
C7_HeadingLines ==
    Parsed =>
        LET hs == pages[1].headings
        IN  /\ \A k \in 2..Len(hs) : hs[k - 1].startOffset < hs[k].startOffset
            /\ {<<hs[k].startOffset, hs[k].level, hs[k].text>> : k \in 1..Len(hs)}
                 = {<<p, HashRun(text, p),
                      Trim(Substring(text, p + HashRun(text, p), LineEndOf(text, p)))>> :
                        p \in {q \in 0..(Len(text) - 1) : IsHeadingLine(text, q)}}

\* The callout the first non-blank line after the line at offset p announces
\* (a blank line holds no non-whitespace character), or NoCallout.
CalloutBelow(t, p) ==
    LET s        == FirstNotOf(t, WhiteSpace, LineEndOf(t, p), Len(t) - 1)
        nextLine == IF s = -1 THEN <<>> ELSE Trim(Substring(t, s, LineEndOf(t, s)))
    IN  IF StartsWith(nextLine, CALLOUT_PREFIX) THEN parseCallout(nextLine, p)
        ELSE NoCallout

\* C8: a heading carries a marker if and only if the first non-blank line
\* after the heading's own line is a callout line; the marker holds that
\* line's type, its title (the capitalized type when none is given) and the
\* color of the type.
C8_MarkerIffNextNonBlankLine ==
    Parsed =>
        \A k \in 1..Len(pages[1].headings) :
            pages[1].headings[k].callout
                = CalloutBelow(text, pages[1].headings[k].startOffset)

\* The headings and flags of the end-to-end example, but for the marker of
\* the second heading.
ExampleParsedBut(hs, fs) ==
    /\ Len(hs) = 2
    /\ hs[1].level = 1 /\ hs[1].text = <<"T", "i", "t", "l", "e">>
    /\ hs[1].callout = NoCallout
    /\ hs[2].level = 2 /\ hs[2].text = <<"S", "u", "b">>
    /\ Len(fs) = 1
    /\ fs[1].type = <<"T", "O", "D", "O">> /\ fs[1].message = <<"f", "i", "x">>

\* C9, as stated: the example parses to the headings Title (level 1, no
\* marker) and Sub (level 2, marker of type note titled Info) and to the one
\* annotation TODO "fix".
C9_ExampleAsStated ==
    (Parsed /\ text = ExampleDoc) =>
        /\ ExampleParsedBut(pages[1].headings, pages[1].flags)
        /\ pages[1].headings[2].callout.type = <<"n", "o", "t", "e">>
        /\ pages[1].headings[2].callout.title = <<"I", "n", "f", "o">>

\* C9, amended: the example parses to the headings Title (level 1) and Sub
\* (level 2), neither with a marker, and to the one annotation TODO "fix".
C9_ExampleNoMarker ==
    (Parsed /\ text = ExampleDoc) =>
        /\ ExampleParsedBut(pages[1].headings, pages[1].flags)
        /\ pages[1].headings[2].callout = NoCallout

\* C9 witness: the example has been parsed and tokenized.
C9_Witness == algo = "minimap" /\ pc = "done" /\ text = ExampleDoc /\ Len(pages) = 1

\* The headings before and at position j that carry a callout and whose level
\* every later heading up to j exceeds.
OpenCallouts(hs, j) ==
    {g \in 1..j : /\ hs[g].callout # NoCallout
                  /\ \A k \in (g + 1)..j : hs[k].level > hs[g].level}

\* The colors of the callouts of the headings G, outermost (lowest level) first.
ColorsOutermostFirst(hs, G) ==
    LET order == CHOOSE f \in [1..Cardinality(G) -> G] :
                     \A a, b \in 1..Cardinality(G) : a < b => hs[f[a]].level < hs[f[b]].level
    IN  [k \in 1..Cardinality(G) |-> [color |-> hs[order[k]].callout.color]]

\* C5: for every heading h handled, the stack stored under h's offset holds
\* the callouts of exactly the headings g at or before h that carry one and
\* whose level every heading after g up to h exceeds, outermost first.
C5_StackIsOpenCallouts ==
    algo = "stacks" =>
        LET hs == HeadingsInOrder(pages)
        IN  /\ DOMAIN stackMap = {hs[j].startOffset : j \in 1..stackPos}
            /\ \A j \in 1..stackPos :
                  stackMap[hs[j].startOffset] = ColorsOutermostFirst(hs, OpenCallouts(hs, j))

\* C5 witness: a level-1 heading with callout A, a level-2 heading with
\* callout B and a sibling level-2 heading with callout C were handled; their
\* stacks are [A], [A, B], [A, C].
C5_Witness ==
    /\ algo = "stacks" /\ pc = "done"
    /\ LET hs == HeadingsInOrder(pages)
       IN  /\ Len(hs) = 3
           /\ hs[1].level = 1 /\ hs[2].level = 2 /\ hs[3].level = 2
           /\ \A j \in 1..3 : hs[j].callout # NoCallout
           /\ Cardinality({hs[j].callout.color : j \in 1..3}) = 3
           /\ stackMap[hs[1].startOffset] = <<[color |-> hs[1].callout.color]>>
           /\ stackMap[hs[2].startOffset]
                 = <<[color |-> hs[1].callout.color], [color |-> hs[2].callout.color]>>
           /\ stackMap[hs[3].startOffset]
                 = <<[color |-> hs[1].callout.color], [color |-> hs[3].callout.color]>>

\* The start offset of a fragment: a heading and a flag fragment carry the
\* heading and the flag, a text and an image fragment their own startOffset.
FragmentStart(f) ==
    IF f.type = "heading" THEN f.heading.startOffset
    ELSE IF f.type = "flag" THEN f.flag.startOffset
    ELSE f.startOffset

\* C18: the start offset of a fragment of tokenizeContent is never smaller
\* than that of the fragment emitted before it (the page starts at offset 0,
\* so that every heading and annotation lies inside its span).
C18_FragmentStartsAscend ==
    Parsed =>
        \A k \in 2..Len(fragments) :
            FragmentStart(fragments[k - 1]) <= FragmentStart(fragments[k])

\* C18 witness: tokenizeContent returned fragments among which a flag starts
\* inside the line of a heading, a second flag starts inside the match of the
\* flag before it, and a text follows an image of the same segment.
C18_Witness ==
    /\ Parsed /\ pc = "done"
    /\ \E h, f, g, i, x \in 1..Len(fragments) :
          /\ h < f /\ f < g /\ g < i /\ i < x
          /\ fragments[h].type = "heading" /\ fragments[f].type = "flag"
          /\ fragments[g].type = "flag" /\ fragments[i].type = "image"
          /\ fragments[x].type = "text"
          /\ FragmentStart(fragments[f])
                 < findHeadingLineEnd(pages[1].content, FragmentStart(fragments[h]))
          /\ FragmentStart(fragments[g])
                 < CursorAfterFlag(pages[1].content, FragmentStart(fragments[f]))
          /\ FragmentStart(fragments[f]) < FragmentStart(fragments[g])
          /\ FragmentStart(fragments[i]) < FragmentStart(fragments[x])

\* C19: at most one scratch container of the paginator is attached to the
\* document, no per-measurement element is left in a container once its
\* measurement returned, and no scratch container is attached after unload or
\* cleanup (until parseDocument is called again).
C19_ScratchReleased ==
    Scratch =>
        /\ Cardinality(body) <= 1
        /\ pc # "measuring" => children = {}
        /\ unloaded => body = {}

\* The first two parts of C19 alone.
ScratchOneAndEmptied ==
    Scratch =>
        /\ Cardinality(body) <= 1
        /\ pc # "measuring" => children = {}

\* FastPaginator keeps the third part of C19: without a container its
\* measurements return 0 and attach nothing.
FastStaysReleased == algo = "fast-scratch" /\ unloaded => body = {}

\* A measurement of AdaptivePaginator began after cleanup and attached a new
\* container.
CleanupThenMeasure ==
    /\ algo = "adaptive-scratch" /\ pc = "measuring" /\ unloaded /\ body # {}

\* C20: whatever maps setFlagColorMap was called with, getFlagColor gives a
\* defined color for every type: the color the map holds for a built-in
\* type, and one fixed color for every other type.
C20_ColorAlwaysDefined ==
    algo = "colors" =>
        /\ flagType # NoType => flagColor # Undefined
        /\ \A type \in AskedTypes :
              /\ getFlagColor(flagColorMap, type) # Undefined
              /\ ToUpperCase(type) \in FLAG_TYPES \cap DOMAIN flagColorMap
                    => getFlagColor(flagColorMap, type) = flagColorMap[ToUpperCase(type)]
        /\ \A type, other \in AskedTypes :
              ToUpperCase(type) \notin FLAG_TYPES /\ ToUpperCase(other) \notin FLAG_TYPES
                 => getFlagColor(flagColorMap, type) = getFlagColor(flagColorMap, other)

\* Before the first setFlagColorMap call every type has a color.
InitialMapIsTotal ==
    algo = "colors" /\ flagColorMap = InitialFlagColorMap /\ flagType # NoType
        => flagColor # Undefined

\* C21: the text stripFlagsAndComments returns holds no inline flag and no
\* comment parseFlags would find, and stripping it again changes nothing.
C21_StrippedHoldsNoFlag ==
    algo = "strip" /\ pc = "done" =>
        /\ result = stripFlagsAndComments(text)
        /\ parseFlags(result, 0) = <<>>
        /\ stripFlagsAndComments(result) = result

\* The steps of the export specification compute stripFlagsAndComments.
StripStepsAgree == algo = "strip" /\ pc = "done" => result = stripFlagsAndComments(text)

\* C17: every entry of every stack stored under a heading's offset carries
\* the type and the color of the callout that opened it.
C17_EntriesCarryTypeAndColor ==
    algo = "stacks" =>
        \A offset \in DOMAIN stackMap :
            \A k \in DOMAIN stackMap[offset] :
                LET entry == stackMap[offset][k]
                    hs    == HeadingsInOrder(pages)
                IN  /\ {"type", "color"} \subseteq DOMAIN entry
                    /\ \E j \in 1..stackPos :
                          /\ hs[j].callout # NoCallout
                          /\ entry.type = hs[j].callout.type
                          /\ entry.color = hs[j].callout.color

\* C15: the annotations of a page stand in ascending order of their offsets.
C15_FlagsSortedByOffset ==
    Parsed =>
        \A i, j \in 1..Len(pages[1].flags) :
            i < j => pages[1].flags[i].startOffset <= pages[1].flags[j].startOffset

\* A complete typed flag stands at offset o of t, its type typeLen characters
\* long: "==", a letter and 1 to 24 further type characters, ":", then one
\* character or more that are not "=", then "==".
CompleteFlagAt(t, o, typeLen) ==
    /\ IsPairAt(t, o, "=")
    /\ typeLen - 1 \in MIN_TYPE_REST..MAX_TYPE_REST
    /\ o + 2 + typeLen < Len(t)
    /\ CharAt(t, o + 2) \in Letters
    /\ \A i \in (o + 3)..(o + 1 + typeLen) : CharAt(t, i) \in TypeChars
    /\ CharAt(t, o + 2 + typeLen) = ":"
    /\ \E e \in (o + 4 + typeLen)..(Len(t) - 2) :
           /\ \A i \in (o + 3 + typeLen)..(e - 1) : CharAt(t, i) # "="
           /\ IsPairAt(t, e, "=")

\* A complete comment stands at offset o of t: "%%", one character or more
\* that are not "%", then "%%".
CompleteCommentAt(t, o) ==
    /\ IsPairAt(t, o, "%")
    /\ \E e \in (o + 3)..(Len(t) - 2) :
           /\ \A i \in (o + 2)..(e - 1) : CharAt(t, i) # "%"
           /\ IsPairAt(t, e, "%")

PaginateAgrees ==
    algo = "simple" /\ pc = "done" => pages = paginateDocument(text)

\* The stacks of the paged view were computed over the pages the view holds.
PagedStacksComputed ==
    /\ Viewing /\ pages # <<>>
    /\ pagedCalloutStacks = computeHeadingCalloutStacks(pages)

\* C26: for every heading, the callout stack computeHeadingCalloutStacks
\* gives over the pages of paginateDocument is the stack it gives over the
\* one page of buildMinimapSections for the heading at the same offset.
C26_PagedStacksAreMinimapStacks ==
    PagedStacksComputed =>
        LET overSections == computeHeadingCalloutStacks(minimapSections)
        IN  \A offset \in DOMAIN overSections \cap DOMAIN pagedCalloutStacks :
               pagedCalloutStacks[offset] = overSections[offset]

\* Over the pages of paginateDocument every stack is empty: collectHeadings
\* gives its headings no callout.
PagedStacksAreEmpty ==
    Viewing =>
        \A offset \in DOMAIN pagedCalloutStacks : pagedCalloutStacks[offset] = <<>>

\* The rendering of the current mode has completed: no invocation is pending,
\* and in minimap and paged mode a document was there to render.
ModeRendered ==
    /\ algo = "view-serial" /\ Settled
    /\ currentMode # "summary" => currentFile # Null

\* C27: after mode switches and refreshes that each wait for the rendering
\* before, once the rendering of the mode has completed, minimapRenderer is
\* non-null only in minimap mode and summaryRenderer only in summary mode.
C27_RenderersFollowMode ==
    ModeRendered =>
        /\ minimapRenderer # NullRenderer => currentMode = "minimap"
        /\ summaryRenderer # NullRenderer => currentMode = "summary"

\* The part of C27 that is about the minimap renderer.
MinimapRendererFollowsMode ==
    ModeRendered /\ minimapRenderer # NullRenderer => currentMode = "minimap"

\* Without a document to render, the minimap renderer outlives its mode too.
MinimapRendererGoesWithoutDocument ==
    algo = "view-serial" /\ Settled /\ minimapRenderer # NullRenderer => currentMode = "minimap"

\* C28: once all invocations of updateView have finished, the pages and the
\* minimap sections are those of the content of the file in currentFile, and
\* documentLength is its length.
C28_ViewShowsCurrentFile ==
    algo = "view" /\ Settled /\ currentFile # Null =>
        /\ pages = paginateDocument(vault[currentFile])
        /\ minimapSections = buildMinimapSections(vault[currentFile])
        /\ documentLength = Len(vault[currentFile])

\* The same holds when no invocation starts while another waits.
SerialViewShowsCurrentFile ==
    algo = "view-serial" /\ Settled /\ currentFile # Null =>
        /\ pages = paginateDocument(vault[currentFile])
        /\ minimapSections = buildMinimapSections(vault[currentFile])
        /\ documentLength = Len(vault[currentFile])

(***************************************************************************)
(* Properties of the headings attached to the pages                        *)
(***************************************************************************)

\* A heading as collectHeadings records it: level, text and startOffset.
Outline(hs) ==
    [k \in 1..Len(hs) |->
        [level |-> hs[k].level, text |-> hs[k].text, startOffset |-> hs[k].startOffset]]

PaginateReturned == algo = "simple" /\ pc = "done"

\* C29: the headings attached to the pages by paginateDocument, over all
\* pages in page order, are the headings parseHeadingsWithCallouts finds in
\* the whole document: the same startOffsets, levels and texts, none
\* missing, none added, none truncated.
C29_PageHeadingsAreDocumentHeadings ==
    PaginateReturned =>
        HeadingsInOrder(pages) = Outline(parseHeadingsWithCallouts(text, 0))

\* A heading line that lies within one page is attached to that page as the
\* document has it.
WholeHeadingLinesKept ==
    PaginateReturned =>
        LET ms == HeadingMatches(text, 0)
            hs == Outline(parseHeadingsWithCallouts(text, 0))
        IN  \A k \in 1..Len(ms) : \A i \in 1..Len(pages) :
               pages[i].startOffset <= ms[k].index /\ ms[k].end <= pages[i].endOffset
                  => \E j \in 1..Len(pages[i].headings) : pages[i].headings[j] = hs[k]

(***************************************************************************)
(* Properties of the heading numbers                                       *)
(***************************************************************************)

NumbersReturned == algo = "numbers" /\ pc = "done"

\* C30: computeHeadingNumbers gives distinct headings of the document
\* distinct numbering strings, whatever the levels of the headings are.
C30_NumbersAreDistinct ==
    NumbersReturned =>
        LET hs == HeadingsInOrder(pages)
        IN  \A j, k \in 1..Len(hs) :
               j # k => headingNumberMap[hs[j].startOffset] # headingNumberMap[hs[k].startOffset]

\* The numbering strings are distinct when the levels start at 1 and never
\* go deeper by more than one at a time.
WellNestedNumbersAreDistinct ==
    NumbersReturned /\ WellNested(HeadingsInOrder(pages)) =>
        LET hs == HeadingsInOrder(pages)
        IN  \A j, k \in 1..Len(hs) :
               j # k => headingNumberMap[hs[j].startOffset] # headingNumberMap[hs[k].startOffset]


============================================================================
